---- MODULE Spec2Model ----
(***************************************************************************)
(* A model of erlport's Erlang external term format codec                  *)
(* (priv/python2/erlport/erlterms.py): encode / encode_term and            *)
(* decode / decode_term, the validated wrapper types, and the callers that *)
(* drive them (a round trip with truncation, a frame reader, a stream      *)
(* reader).                                                                *)
(*                                                                         *)
(* Byte strings are sequences of 0..255.  Python integers are unbounded,   *)
(* so an integer value is kept as sign and magnitude, the magnitude a      *)
(* little-endian sequence of bytes without leading zero digits (<<>> is    *)
(* zero).  Every term is a record with the same five fields:               *)
(*   k  the variant          n  a small number (sign, truth value, ...)    *)
(*   b  bytes / digits       e  the elements        t  <<tail or language>>*)
(***************************************************************************)
EXTENDS Integers, Sequences, FiniteSets, TLC

VARIABLES pc, term, compressed, zlib_term, wire, buf, res, frame, msgs, sent, emitted

vars == <<pc, term, compressed, zlib_term, wire, buf, res, frame, msgs, sent, emitted>>

(***************************************************************************)
(* Wire tags and fixed byte strings of the format.                         *)
(***************************************************************************)
VERSION == 131
COMPRESSED == 80
ATOM_EXT == 100
NIL_EXT == 106
STRING_EXT == 107
LIST_EXT == 108
SMALL_TUPLE_EXT == 104
LARGE_TUPLE_EXT == 105
SMALL_INTEGER_EXT == 97
INTEGER_EXT == 98
BINARY_EXT == 109
NEW_FLOAT_EXT == 70
SMALL_BIG_EXT == 110
LARGE_BIG_EXT == 111

TrueName == <<116, 114, 117, 101>>
FalseName == <<102, 97, 108, 115, 101>>
UndefinedName == <<117, 110, 100, 101, 102, 105, 110, 101, 100>>
MarkerName == <<36, 101, 114, 108, 112, 111, 114, 116, 46, 111, 112, 97, 113, 117, 101>>
PythonName == <<112, 121, 116, 104, 111, 110>>
ErlangName == <<101, 114, 108, 97, 110, 103>>

(***************************************************************************)
(* Sequences of bytes.                                                     *)
(***************************************************************************)
Slice(s, i, j) == IF j < i THEN <<>> ELSE SubSeq(s, i, j)

From(s, i) == Slice(s, i, Len(s))

Take(s, n) == Slice(s, 1, IF n < Len(s) THEN n ELSE Len(s))

Reverse(s) == [x \in 1..Len(s) |-> s[Len(s) + 1 - x]]

IsPrefix(p, s) == Len(p) <= Len(s) /\ Take(s, Len(p)) = p

RECURSIVE Flatten(_)
Flatten(ss) == IF ss = <<>> THEN <<>> ELSE Head(ss) \o Flatten(Tail(ss))

(***************************************************************************)
(* struct.pack / struct.unpack of the fixed-width fields.                   *)
(***************************************************************************)
int2_pack(n) == <<n \div 256, n % 256>>

int4_pack(n) == <<n \div 16777216, (n \div 65536) % 256, (n \div 256) % 256, n % 256>>

int2_unpack(s) == s[1] * 256 + s[2]

(***************************************************************************)
(* Terms.                                                                  *)
(***************************************************************************)
MkTerm(k, n, b, e, t) == [k |-> k, n |-> n, b |-> b, e |-> e, t |-> t]

Long(sign, mag) == MkTerm("int", sign, mag, <<>>, <<>>)
Float(signexp, mant) == MkTerm("float", signexp, mant, <<>>, <<>>)
Atom(name) == MkTerm("atom", 0, name, <<>>, <<>>)
Bool(v) == MkTerm("bool", v, <<>>, <<>>, <<>>)
None == MkTerm("none", 0, <<>>, <<>>, <<>>)
Str(bytes) == MkTerm("str", 0, bytes, <<>>, <<>>)
Unicode(points) == MkTerm("unicode", 0, points, <<>>, <<>>)
List(elems) == MkTerm("list", 0, <<>>, elems, <<>>)
ImproperList(lst, tail) == MkTerm("improper", 0, <<>>, lst, <<tail>>)
Tuple(elems) == MkTerm("tuple", 0, <<>>, elems, <<>>)
OpaqueObject(data, language) == MkTerm("opaque", 0, data, <<>>, <<language>>)
Native(pickle) == MkTerm("native", 0, pickle, <<>>, <<>>)
NoTerm == MkTerm("-", 0, <<>>, <<>>, <<>>)

True == Bool(1)
False == Bool(0)
marker == Atom(MarkerName)
python == Atom(PythonName)

\* isinstance(x, list): ImproperList is a subclass of list.
IsList(x) == x.k \in {"list", "improper"}

\* isinstance(x, str): Atom is a subclass of str.
IsStr(x) == x.k \in {"str", "atom"}

\* isinstance(x, (int, long)): bool is a subclass of int.
IsIntLong(x) == x.k \in {"int", "bool"}

(***************************************************************************)
(* Arithmetic on Python integers (sign and little-endian magnitude).       *)
(***************************************************************************)
RECURSIVE Strip(_)
Strip(m) ==
    IF m = <<>> THEN <<>>
    ELSE IF m[Len(m)] = 0 THEN Strip(Take(m, Len(m) - 1)) ELSE m

RECURSIVE NatDigits(_)
NatDigits(n) == IF n = 0 THEN <<>> ELSE <<n % 256>> \o NatDigits(n \div 256)

IntOfNat(n) == Long(0, NatDigits(n))

\* -1, 0 or 1 as magnitude a is below, equal to or above magnitude b.
RECURSIVE MagCmp(_, _)
MagCmp(a, b) ==
    IF Len(a) # Len(b) THEN (IF Len(a) < Len(b) THEN -1 ELSE 1)
    ELSE IF a = <<>> THEN 0
    ELSE IF a[Len(a)] # b[Len(b)] THEN (IF a[Len(a)] < b[Len(b)] THEN -1 ELSE 1)
    ELSE MagCmp(Take(a, Len(a) - 1), Take(b, Len(b) - 1))

\* struct ">I": the value of four big-endian bytes, in [0, 2^32 - 1].
int4_unpack(s) == Long(0, Strip(Reverse(s)))

\* The value of a magnitude below 2^31 as a number.
RECURSIVE MagNat(_)
MagNat(m) == IF m = <<>> THEN 0 ELSE Head(m) + 256 * MagNat(Tail(m))

\* x as a number, for 0 <= x < 2^31: a length or an index of a buffer.
NatOfInt(x) == MagNat(x.b)

RECURSIVE MagAdd(_, _, _)
\* The digits of a + b + carry.
MagAdd(a, b, carry) ==
    IF a = <<>> /\ b = <<>> THEN (IF carry = 0 THEN <<>> ELSE <<carry>>)
    ELSE LET x == IF a = <<>> THEN 0 ELSE Head(a)
             y == IF b = <<>> THEN 0 ELSE Head(b)
         IN  <<(x + y + carry) % 256>>
                 \o MagAdd(IF a = <<>> THEN a ELSE Tail(a), IF b = <<>> THEN b ELSE Tail(b),
                           (x + y + carry) \div 256)

\* x + n for x >= 0 and a number n >= 0
IntAdd(x, n) == Long(0, MagAdd(x.b, NatDigits(n), 0))

RECURSIVE MagDec(_)
\* The digits of m - 1, for m > 0.
MagDec(m) == IF Head(m) = 0 THEN <<255>> \o MagDec(Tail(m)) ELSE <<Head(m) - 1>> \o Tail(m)

\* x - 1 for x > 0
IntDec(x) == Long(0, Strip(MagDec(x.b)))

\* x <= y
IntLE(x, y) ==
    IF x.n = 1 /\ y.n = 0 THEN TRUE
    ELSE IF x.n = 0 /\ y.n = 1 THEN FALSE
    ELSE IF x.n = 0 THEN MagCmp(x.b, y.b) <= 0
    ELSE MagCmp(x.b, y.b) >= 0

\* x < y
IntLT(x, y) == ~IntLE(y, x)

\* -x
IntNeg(x) == IF x.b = <<>> THEN x ELSE Long(1 - x.n, x.b)

\* (n << 8) | i, for a byte i
ShiftOr(n, i) == Long(n.n, Strip(<<i>> \o n.b))

\* The magnitude padded with zero digits to w bytes.
Pad(m, w) == [x \in 1..w |-> IF x <= Len(m) THEN m[x] ELSE 0]

\* 2^(8 * Len(d)) - d for little-endian digits d # 0: two's complement.
RECURSIVE Complement(_, _)
Complement(d, borrowed) ==
    IF d = <<>> THEN <<>>
    ELSE IF borrowed THEN <<255 - Head(d)>> \o Complement(Tail(d), TRUE)
    ELSE IF Head(d) = 0 THEN <<0>> \o Complement(Tail(d), FALSE)
    ELSE <<256 - Head(d)>> \o Complement(Tail(d), TRUE)

Int255 == Long(0, <<255>>)
Int0 == Long(0, <<>>)
IntMin4 == Long(1, <<0, 0, 0, 128>>)
\* an upper limit of the 4-byte form that is one too high
IntMax4Off == Long(0, <<0, 0, 0, 128>>)

IntMax4 == Long(0, <<255, 255, 255, 127>>)

\* struct ">i": four big-endian bytes of a value in [-2^31, 2^31 - 1].
signed_int4_pack(x) ==
    IF x.n = 0 THEN Reverse(Pad(x.b, 4))
    ELSE Reverse(Complement(Pad(x.b, 4), FALSE))

signed_int4_unpack(s) ==
    IF s[1] < 128 THEN Long(0, Strip(Reverse(s)))
    ELSE Long(1, Strip(Complement(Reverse(s), FALSE)))

(***************************************************************************)
(* encode_term: the single-term encoder.  The branches are the code's, in  *)
(* the code's order.  The length checks against 4294967295 never fail on   *)
(* the terms of the model and are left out.                                *)
(***************************************************************************)
\* array('B', term): the byte of an int or bool in [0, 255], else OverflowError.
ArrayFits(x) == x.k = "bool" \/ (x.n = 0 /\ Len(x.b) <= 1)

ArrayByte(x) == IF x.k = "bool" THEN x.n ELSE IF x.b = <<>> THEN 0 ELSE x.b[1]

\* The try block of the list branch ran to its else clause.
StringForm(elems) == \A i \in 1..Len(elems) : IsIntLong(elems[i]) /\ ArrayFits(elems[i])

\* The bignum body: sign byte and minimal little-endian magnitude.
RECURSIVE LowBytes(_)
LowBytes(mag) ==
    \* while term: append(term & 0xff); term >>= 8
    \* (the loop over the digits, taken half by half to keep the nesting shallow)
    IF Len(mag) <= 1 THEN mag
    ELSE LowBytes(Take(mag, Len(mag) \div 2)) \o LowBytes(From(mag, Len(mag) \div 2 + 1))

encode_big(x) ==
    LET sign == IF IntLE(Int0, x) THEN 0 ELSE 1
        bytes == LowBytes(x.b)
        length == Len(bytes)
    IN  IF length <= 255
        THEN <<SMALL_BIG_EXT, length, sign>> \o bytes
        ELSE <<LARGE_BIG_EXT>> \o int4_pack(length) \o <<sign>> \o bytes

encode_int(x) ==
    IF IntLE(Int0, x) /\ IntLE(x, Int255)
    THEN <<SMALL_INTEGER_EXT, ArrayByte(x)>>
    ELSE IF IntLE(IntMin4, x) /\ IntLE(x, IntMax4)
    THEN <<INTEGER_EXT>> \o signed_int4_pack(x)
    ELSE encode_big(x)

\* struct ">d": sign and exponent in the first 12 bits, then the 52-bit mantissa
\* (kept as its top 4 bits followed by six bytes).
float_pack(x) ==
    <<x.n \div 16, (x.n % 16) * 16 + x.b[1]>> \o Tail(x.b)

float_unpack(s) ==
    Float(s[1] * 16 + s[2] \div 16, <<s[2] % 16>> \o SubSeq(s, 3, 8))

\* cPickle.dumps(term, 2) of an object that encode_term has no form for: the
\* object is kept as its pickle.
dumps(x) == x.b

RECURSIVE encode_term(_)
encode_term(x) ==
    IF x.k = "tuple" THEN
        LET arity == Len(x.e)
            header == IF arity <= 255 THEN <<SMALL_TUPLE_EXT, arity>>
                      ELSE <<LARGE_TUPLE_EXT>> \o int4_pack(arity)
        IN  header \o Flatten([i \in 1..arity |-> encode_term(x.e[i])])
    ELSE IF x.k = "improper" THEN
        <<LIST_EXT>> \o int4_pack(Len(x.e))
            \o Flatten([i \in 1..Len(x.e) |-> encode_term(x.e[i])])
            \o encode_term(x.t[1])
    ELSE IF x.k = "list" THEN
        LET length == Len(x.e)
        IN  IF length = 0 THEN <<NIL_EXT>>
            ELSE IF length <= 65535 /\ StringForm(x.e)
            THEN <<STRING_EXT>> \o int2_pack(length)
                     \o [i \in 1..length |-> ArrayByte(x.e[i])]
            ELSE <<LIST_EXT>> \o int4_pack(length)
                     \o Flatten([i \in 1..length |-> encode_term(x.e[i])])
                     \o <<NIL_EXT>>
    ELSE IF x.k = "unicode" THEN
        encode_term(List([i \in 1..Len(x.b) |-> IntOfNat(x.b[i])]))
    ELSE IF x.k = "atom" THEN <<ATOM_EXT>> \o int2_pack(Len(x.b)) \o x.b
    ELSE IF x.k = "str" THEN <<BINARY_EXT>> \o int4_pack(Len(x.b)) \o x.b
    ELSE IF x = True THEN <<ATOM_EXT, 0, 4>> \o TrueName
    ELSE IF x = False THEN <<ATOM_EXT, 0, 5>> \o FalseName
    ELSE IF x.k = "int" THEN encode_int(x)
    ELSE IF x.k = "float" THEN <<NEW_FLOAT_EXT>> \o float_pack(x)
    ELSE IF x = None THEN <<ATOM_EXT, 0, 9>> \o UndefinedName
    ELSE IF x.k = "opaque" THEN
        \* OpaqueObject.encode
        IF x.t[1].b = ErlangName THEN x.b
        ELSE encode_term(Tuple(<<marker, x.t[1], Str(x.b)>>))
    ELSE
        \* dumps(term, PICKLE_PROTOCOL), wrapped as this host's opaque object
        encode_term(OpaqueObject(dumps(x), python))

(***************************************************************************)
(* decode_term: the single-term decoder.  A result is the decoded term and *)
(* the unconsumed bytes, or the exception raised.                          *)
(***************************************************************************)
Ok(x, rest) == [st |-> "ok", why |-> "", term |-> x, rest |-> rest]

Raise(exc, why) == [st |-> exc, why |-> why, term |-> NoTerm, rest |-> <<>>]

IncompleteData == Raise("IncompleteData", "incomplete data")

\* Atom.__new__ on a str: the length check.
NewAtom(name, rest) ==
    IF Len(name) > 255 THEN Raise("ValueError", "invalid atom length")
    ELSE Ok(Atom(name), rest)

\* an improper list built without the checks
NewImproperListUnchecked(lst, tail, rest) == Ok(ImproperList(lst, tail), rest)

\* ImproperList.__init__ on a list lst.
NewImproperList(lst, tail, rest) ==
    IF lst = <<>> THEN Raise("ValueError", "empty list not allowed")
    ELSE IF IsList(tail) THEN Raise("TypeError", "non list object expected for tail")
    ELSE Ok(ImproperList(lst, tail), rest)

(***************************************************************************)
(* cPickle.  loads runs the unpickling machine on the bytes: a stack of    *)
(* values, one opcode at a time up to STOP.  The opcodes modelled are the  *)
(* ones below; a pickle that uses another opcode of the format is outside  *)
(* the model and is reported as such.  A dict, which encode_term has no    *)
(* form for, is the native object Native(<its pickle>).                    *)
(***************************************************************************)
PROTO == 128
STOP == 46
NONE == 78
NEWTRUE == 136
NEWFALSE == 137
BININT1 == 75
BININT2 == 77
SHORT_BINSTRING == 85
EMPTY_LIST == 93
EMPTY_TUPLE == 41
EMPTY_DICT == 125
BINPUT == 113
APPEND == 97
TUPLE1 == 133
TUPLE2 == 134
TUPLE3 == 135

\* The opcodes of the pickle format that the machine below does not run.
OtherOpcodes == {40, 48, 49, 50, 70, 71, 73, 74, 76, 80, 81, 82, 83, 84, 86, 88, 98, 99,
                 100, 101, 103, 104, 105, 106, 108, 111, 112, 114, 115, 116, 117,
                 129, 130, 131, 132, 138, 139}

\* cPickle.dumps({}, 2)
DictPickle == <<PROTO, 2, EMPTY_DICT, BINPUT, 1, STOP>>

EOFError == Raise("EOFError", "")

StackUnderflow == Raise("UnpicklingError", "unpickling stack underflow")

RECURSIVE load(_, _, _)
\* Unpickler.load: s is what is left to read, stack the values so far.
load(s, stack, rest) ==
    IF s = <<>> THEN EOFError
    ELSE LET op == s[1]
             n == Len(stack)
    IN  IF op = 0 THEN EOFError
        ELSE IF op = STOP THEN
            IF n = 0 THEN Raise("UnpicklingError", "bad pickle data")
            ELSE Ok(stack[n], rest)
        ELSE IF op = PROTO THEN
            IF Len(s) < 2 THEN EOFError
            ELSE IF s[2] > 2 THEN Raise("ValueError", "unsupported pickle protocol")
            ELSE load(From(s, 3), stack, rest)
        ELSE IF op = NONE THEN load(Tail(s), Append(stack, None), rest)
        ELSE IF op = NEWTRUE THEN load(Tail(s), Append(stack, True), rest)
        ELSE IF op = NEWFALSE THEN load(Tail(s), Append(stack, False), rest)
        ELSE IF op = BININT1 THEN
            IF Len(s) < 2 THEN EOFError
            ELSE load(From(s, 3), Append(stack, IntOfNat(s[2])), rest)
        ELSE IF op = BININT2 THEN
            IF Len(s) < 3 THEN EOFError
            ELSE load(From(s, 4), Append(stack, IntOfNat(s[2] + 256 * s[3])), rest)
        ELSE IF op = SHORT_BINSTRING THEN
            IF Len(s) < 2 \/ Len(s) < 2 + s[2] THEN EOFError
            ELSE load(From(s, 3 + s[2]), Append(stack, Str(Slice(s, 3, 2 + s[2]))), rest)
        ELSE IF op = EMPTY_LIST THEN load(Tail(s), Append(stack, List(<<>>)), rest)
        ELSE IF op = EMPTY_TUPLE THEN load(Tail(s), Append(stack, Tuple(<<>>)), rest)
        ELSE IF op = EMPTY_DICT THEN load(Tail(s), Append(stack, Native(DictPickle)), rest)
        ELSE IF op = BINPUT THEN
            IF Len(s) < 2 THEN EOFError
            ELSE IF n = 0 THEN StackUnderflow
            ELSE load(From(s, 3), stack, rest)
        ELSE IF op = APPEND THEN
            IF n < 2 THEN StackUnderflow
            ELSE IF stack[n - 1].k # "list" THEN Raise("AttributeError", "")
            ELSE load(Tail(s),
                      Append(Take(stack, n - 2), List(Append(stack[n - 1].e, stack[n]))), rest)
        ELSE IF op \in {TUPLE1, TUPLE2, TUPLE3} THEN
            LET arity == op - TUPLE1 + 1
            IN  IF n < arity THEN StackUnderflow
                ELSE load(Tail(s),
                          Append(Take(stack, n - arity), Tuple(From(stack, n - arity + 1))),
                          rest)
        ELSE IF op \in OtherOpcodes THEN Raise("outside the model", "pickle opcode")
        ELSE Raise("UnpicklingError", "invalid load key")

\* cPickle.loads(data)
loads(data, rest) ==
    IF ~IsStr(data) THEN Raise("TypeError", "loads() argument 1 must be string")
    ELSE load(data.b, <<>>, rest)

\* language == "python": equality with a str.
IsPython(x) == (IsStr(x) \/ x.k = "unicode") /\ x.b = PythonName

\* OpaqueObject.decode(data, language), with OpaqueObject.__init__.
decode_opaque(data, language, rest) ==
    IF IsPython(language) THEN loads(data, rest)
    ELSE IF ~IsStr(data) THEN Raise("TypeError", "data must be instance of str")
    ELSE IF language.k # "atom" THEN Raise("TypeError", "language must be instance of Atom")
    ELSE Ok(OpaqueObject(data.b, language), rest)

\* a decoder that never recognises the marker
IsMarkerNever(x) == FALSE

\* lst[0] == opaque: equality with the marker atom, a str.
IsMarker(x) == (IsStr(x) \/ x.k = "unicode") /\ x.b = MarkerName

RECURSIVE BigValue(_, _)
BigValue(n, bytes) ==
    \* for i in <bytes, most significant first>: n = (n << 8) | i
    \* (the loop over the bytes, taken half by half, the value after the first
    \* half being computed before the second half is entered)
    IF bytes = <<>> THEN n
    ELSE IF Len(bytes) = 1 THEN ShiftOr(n, bytes[1])
    ELSE LET m == BigValue(n, Take(bytes, Len(bytes) \div 2))
         IN  IF m.n \in {0, 1} THEN BigValue(m, From(bytes, Len(bytes) \div 2 + 1)) ELSE m

\* decode_big without the sign byte
decode_big_unsigned(length, sign, tail) ==
    IF IntLT(IntOfNat(Len(tail)), length) THEN IncompleteData
    ELSE Ok(BigValue(Int0, Reverse(Take(tail, NatOfInt(length)))),
            From(tail, NatOfInt(length) + 1))

\* The bignum branch after the unpacking of length and sign.
decode_big(length, sign, tail) ==
    IF IntLT(IntOfNat(Len(tail)), length) THEN IncompleteData
    ELSE LET n == BigValue(Int0, Reverse(Take(tail, NatOfInt(length))))
         IN  Ok(IF length # Int0 /\ sign # 0 THEN IntNeg(n) ELSE n,
                From(tail, NatOfInt(length) + 1))

RECURSIVE decode_term(_)
RECURSIVE decode_items(_, _, _)
\* The while loop of the list and tuple branch: the elements decoded so far, and
\* the bytes left, or the first exception.
decode_items(length, tail, lst) ==
    IF IntLT(Int0, length) THEN
        LET r == decode_term(tail)
        IN  IF r.st # "ok" THEN r
            ELSE decode_items(IntDec(length), r.rest, Append(lst, r.term))
    ELSE Ok(List(lst), tail)

decode_term(string) ==
    IF string = <<>> THEN IncompleteData
    ELSE LET tag == string[1]
             ln == Len(string)
    IN  IF tag = ATOM_EXT THEN
            IF ln < 3 THEN IncompleteData
            ELSE LET length == int2_unpack(SubSeq(string, 2, 3)) + 3
                     name == Slice(string, 4, length)
                     rest == From(string, length + 1)
                 IN  IF ln < length THEN IncompleteData
                     ELSE IF name = TrueName THEN Ok(True, rest)
                     ELSE IF name = FalseName THEN Ok(False, rest)
                     ELSE IF name = UndefinedName THEN Ok(None, rest)
                     ELSE NewAtom(name, rest)
        ELSE IF tag = NIL_EXT THEN Ok(List(<<>>), From(string, 2))
        ELSE IF tag = STRING_EXT THEN
            IF ln < 3 THEN IncompleteData
            ELSE LET length == int2_unpack(SubSeq(string, 2, 3)) + 3
                 IN  IF ln < length THEN IncompleteData
                     ELSE Ok(List([i \in 1..(length - 3) |-> IntOfNat(string[i + 3])]),
                             From(string, length + 1))
        ELSE IF tag \in {LIST_EXT, SMALL_TUPLE_EXT, LARGE_TUPLE_EXT} THEN
            IF tag = SMALL_TUPLE_EXT /\ ln < 2 THEN IncompleteData
            ELSE IF tag # SMALL_TUPLE_EXT /\ ln < 5 THEN IncompleteData
            ELSE LET length == IF tag = SMALL_TUPLE_EXT THEN IntOfNat(string[2])
                               ELSE int4_unpack(SubSeq(string, 2, 5))
                     items == decode_items(length,
                                  From(string, IF tag = SMALL_TUPLE_EXT THEN 3 ELSE 6), <<>>)
                     lst == items.term.e
                     tail == items.rest
                 IN  IF items.st # "ok" THEN items
                     ELSE IF tag = LIST_EXT THEN
                         IF tail = <<>> THEN IncompleteData
                         ELSE IF tail[1] # NIL_EXT THEN
                             LET improper == decode_term(tail)
                             IN  IF improper.st # "ok" THEN improper
                                 ELSE NewImproperList(lst, improper.term, improper.rest)
                         ELSE Ok(List(lst), From(tail, 2))
                     ELSE IF Len(lst) = 3 /\ IsMarker(lst[1])
                     THEN decode_opaque(lst[3], lst[2], tail)
                     ELSE Ok(Tuple(lst), tail)
        ELSE IF tag = SMALL_INTEGER_EXT THEN
            IF ln < 2 THEN IncompleteData
            ELSE Ok(IntOfNat(string[2]), From(string, 3))
        ELSE IF tag = INTEGER_EXT THEN
            IF ln < 5 THEN IncompleteData
            ELSE Ok(signed_int4_unpack(SubSeq(string, 2, 5)), From(string, 6))
        ELSE IF tag = BINARY_EXT THEN
            IF ln < 5 THEN IncompleteData
            ELSE LET length == IntAdd(int4_unpack(SubSeq(string, 2, 5)), 5)
                 IN  IF IntLT(IntOfNat(ln), length) THEN IncompleteData
                     ELSE Ok(Str(Slice(string, 6, NatOfInt(length))),
                             From(string, NatOfInt(length) + 1))
        ELSE IF tag = NEW_FLOAT_EXT THEN
            IF ln < 9 THEN IncompleteData
            ELSE Ok(float_unpack(SubSeq(string, 2, 9)), From(string, 10))
        ELSE IF tag = SMALL_BIG_EXT THEN
            IF ln < 3 THEN IncompleteData
            ELSE decode_big(IntOfNat(string[2]), string[3], From(string, 4))
        ELSE IF tag = LARGE_BIG_EXT THEN
            IF ln < 6 THEN IncompleteData
            ELSE decode_big(int4_unpack(SubSeq(string, 2, 5)), string[6], From(string, 7))
        ELSE Raise("ValueError", "unsupported data")

(***************************************************************************)
(* zlib, as the module imports it: compress() and decompressobj().  Both   *)
(* are computed as zlib 1.2 computes them for one short buffer handed over *)
(* in one call.  compress() is deflate: the hash chains and longest_match, *)
(* deflate_fast for the levels 1 to 3 and deflate_slow for 4 to 9, and one *)
(* final block, stored, fixed or dynamic, whichever _tr_flush_block finds  *)
(* shortest, between the two header bytes of the level and the Adler-32    *)
(* checksum.  decompressobj() is inflate: it hands back what the bytes it  *)
(* was fed decode to so far, the bytes after the end of the stream, and    *)
(* fails with zlib.error on bytes that are no deflate data.  Buffers are   *)
(* shorter than the symbol buffer of deflate (16383 literals and matches), *)
(* than the window and than the 64K of a stored block, so deflate writes   *)
(* one block and no window slides.                                         *)
(***************************************************************************)
Pow2(n) ==
    <<1, 2, 4, 8, 16, 32, 64, 128, 256, 512, 1024, 2048, 4096, 8192, 16384, 32768, 65536>>[n + 1]

RECURSIVE Xor(_, _)
Xor(a, b) ==
    IF a = 0 THEN b ELSE IF b = 0 THEN a
    ELSE ((a + b) % 2) + 2 * Xor(a \div 2, b \div 2)

Max(S) == CHOOSE x \in S : \A y \in S : y <= x

Min(S) == CHOOSE x \in S : \A y \in S : x <= y

\* The members of a set of numbers, smallest first.
Ascending(S) ==
    LET rank == [x \in S |-> Cardinality({y \in S : y < x}) + 1]
    IN  [i \in 1..Cardinality(S) |-> CHOOSE x \in S : rank[x] = i]

\* The members of a set of numbers, largest first.
Descending(S) ==
    LET rank == [x \in S |-> Cardinality({y \in S : y > x}) + 1]
    IN  [i \in 1..Cardinality(S) |-> CHOOSE x \in S : rank[x] = i]

RECURSIVE Join(_, _, _)
\* The sequences ss[i], ..., ss[j] one after the other.
Join(ss, i, j) ==
    IF i > j THEN <<>>
    ELSE IF i = j THEN ss[i]
    ELSE Join(ss, i, (i + j) \div 2) \o Join(ss, (i + j) \div 2 + 1, j)

RECURSIVE Sum(_, _, _)
\* s[i] + ... + s[j]
Sum(s, i, j) ==
    IF i > j THEN 0
    ELSE IF i = j THEN s[i]
    ELSE Sum(s, i, (i + j) \div 2) + Sum(s, (i + j) \div 2 + 1, j)

\* Adler-32 of the bytes s, highest byte first: the sum a of the bytes and 1,
\* and the sum b of the values a takes byte after byte, both modulo 65521.
adler32(s) ==
    LET n == Len(s)
        a == (1 + Sum(s, 1, n)) % 65521
        b == (n + Sum([i \in 1..n |-> ((n - i + 1) * s[i]) % 65521], 1, n)) % 65521
    IN  <<b \div 256, b % 256, a \div 256, a % 256>>

MIN_MATCH == 3
MAX_MATCH == 258
TOO_FAR == 4096
NIL == 0
LITERALS == 256
END_BLOCK == 256
L_CODES == 286
D_CODES == 30
BL_CODES == 19
MAX_BITS == 15
MAX_BL_BITS == 7
REP_3_6 == 16
REPZ_3_10 == 17
REPZ_11_138 == 18

\* The tables of trees.c; the entry of code c is at c + 1.
extra_lbits ==
    <<0, 0, 0, 0, 0, 0, 0, 0, 1, 1, 1, 1, 2, 2, 2, 2, 3, 3, 3, 3, 4, 4, 4, 4, 5, 5, 5, 5, 0>>

extra_dbits ==
    <<0, 0, 0, 0, 1, 1, 2, 2, 3, 3, 4, 4, 5, 5, 6, 6, 7, 7, 8, 8, 9, 9, 10, 10, 11, 11,
      12, 12, 13, 13>>

extra_blbits == <<0, 0, 0, 0, 0, 0, 0, 0, 0, 0, 0, 0, 0, 0, 0, 0, 2, 3, 7>>

bl_order == <<16, 17, 18, 0, 8, 7, 9, 6, 10, 5, 11, 4, 12, 3, 13, 2, 14, 1, 15>>

\* the match lengths (less MIN_MATCH) the length codes start at; code 28 is
\* the length 258 alone
base_length ==
    <<0, 1, 2, 3, 4, 5, 6, 7, 8, 10, 12, 14, 16, 20, 24, 28, 32, 40, 48, 56, 64, 80, 96,
      112, 128, 160, 192, 224, 255>>

\* the distances (less 1) the distance codes start at
base_dist ==
    <<0, 1, 2, 3, 4, 6, 8, 12, 16, 24, 32, 48, 64, 96, 128, 192, 256, 384, 512, 768, 1024,
      1536, 2048, 3072, 4096, 6144, 8192, 12288, 16384, 24576>>

length_code(lc) ==
    IF lc = 255 THEN 28
    ELSE CHOOSE c \in 0..27 : base_length[c + 1] <= lc /\ (c = 27 \/ lc < base_length[c + 2])

d_code(dist) ==
    CHOOSE c \in 0..29 : base_dist[c + 1] <= dist /\ (c = 29 \/ dist < base_dist[c + 2])

\* static_ltree: the lengths and the codes of the fixed literal/length code.
static_len(n) == IF n <= 143 THEN 8 ELSE IF n <= 255 THEN 9 ELSE IF n <= 279 THEN 7 ELSE 8

static_code(n) ==
    IF n <= 143 THEN 48 + n ELSE IF n <= 255 THEN 400 + (n - 144)
    ELSE IF n <= 279 THEN n - 256 ELSE 192 + (n - 280)

\* configuration_table of deflate.c, levels 1 to 9.
configuration_table ==
    << [good_length |-> 4, max_lazy |-> 4, nice_length |-> 8, max_chain |-> 4],
       [good_length |-> 4, max_lazy |-> 5, nice_length |-> 16, max_chain |-> 8],
       [good_length |-> 4, max_lazy |-> 6, nice_length |-> 32, max_chain |-> 32],
       [good_length |-> 4, max_lazy |-> 4, nice_length |-> 16, max_chain |-> 16],
       [good_length |-> 8, max_lazy |-> 16, nice_length |-> 32, max_chain |-> 32],
       [good_length |-> 8, max_lazy |-> 16, nice_length |-> 128, max_chain |-> 128],
       [good_length |-> 8, max_lazy |-> 32, nice_length |-> 128, max_chain |-> 256],
       [good_length |-> 32, max_lazy |-> 128, nice_length |-> 258, max_chain |-> 1024],
       [good_length |-> 32, max_lazy |-> 258, nice_length |-> 258, max_chain |-> 4096] >>

\* send_bits: a value, lowest bit first.
send_bits(value, length) == [i \in 1..length |-> (value \div Pow2(i - 1)) % 2]

\* A Huffman code goes out highest bit first (the trees hold it reversed).
code_bits(code, length) == [i \in 1..length |-> (code \div Pow2(length - i)) % 2]

\* bi_windup: the bits as bytes, the last byte filled with zeros.
bi_windup(bits) ==
    LET b(k) == IF k <= Len(bits) THEN bits[k] ELSE 0
    IN  [j \in 1..((Len(bits) + 7) \div 8) |->
            b(8 * j - 7) + 2 * b(8 * j - 6) + 4 * b(8 * j - 5) + 8 * b(8 * j - 4)
            + 16 * b(8 * j - 3) + 32 * b(8 * j - 2) + 64 * b(8 * j - 1) + 128 * b(8 * j)]

\* The window byte at position p, counted from 0; zero after the input.
WindowByte(window, p) == IF p < Len(window) THEN window[p + 1] ELSE 0

\* UPDATE_HASH over the MIN_MATCH bytes at p: hash_bits 15, hash_shift 5.
Hash(window, p) ==
    Xor(Xor((window[p + 1] % 32) * 1024, window[p + 2] * 32), window[p + 3])

\* The hash of every position INSERT_STRING may be called on.
Hashes(window) == [p \in 1..(Len(window) - 2) |-> Hash(window, p - 1)]

\* The hash chain INSERT_STRING finds at p: the positions inserted with the
\* hash of p, the last one first.  Position 0 is NIL and ends a chain.
hash_chain(c, ins, p) == Descending({q \in ins : q > NIL /\ c.hash[q + 1] = c.hash[p + 1]})

\* How far the bytes at match and at scan (after match) agree, at most
\* MAX_MATCH; after the input both are zero.
MatchLen(window, match, scan) ==
    LET there == Len(window) - match
        differ == {k \in 0..((IF there < MAX_MATCH THEN there ELSE MAX_MATCH) - 1) :
                      WindowByte(window, match + k) # WindowByte(window, scan + k)}
    IN  IF differ = {} THEN MAX_MATCH ELSE Min(differ)

\* One turn of the loop of longest_match, on the next match of the chain.
chain_step(c, strstart, nice_match, chain, w) ==
    LET cur_match == chain[w.i]
        len == MatchLen(c.window, cur_match, strstart)
        better == len > w.len
    IN  [i |-> w.i + 1,
         len |-> IF better THEN len ELSE w.len,
         start |-> IF better THEN cur_match ELSE w.start,
         chain_length |-> w.chain_length - 1,
         done |-> (better /\ len >= nice_match) \/ w.chain_length = 1 \/ w.i = Len(chain)]

RECURSIVE chain_walk(_, _, _, _, _, _)
\* At most n turns of the loop of longest_match.
chain_walk(c, strstart, nice_match, chain, w, n) ==
    IF w.done THEN w
    ELSE IF n <= 1 THEN chain_step(c, strstart, nice_match, chain, w)
    ELSE LET half == chain_walk(c, strstart, nice_match, chain, w, n \div 2)
         IN  IF half.done THEN half
             ELSE chain_walk(c, strstart, nice_match, chain, half, n - n \div 2)

longest_match(c, ins, strstart, prev_length, match_start) ==
    LET lookahead == Len(c.window) - strstart
        chain == hash_chain(c, ins, strstart)
        chain_length == IF prev_length >= c.cfg.good_length
                        THEN c.cfg.max_chain \div 4 ELSE c.cfg.max_chain
        nice_match == IF c.cfg.nice_length > lookahead THEN lookahead ELSE c.cfg.nice_length
        m == chain_walk(c, strstart, nice_match, chain,
                        [i |-> 1, len |-> prev_length, start |-> match_start,
                         chain_length |-> chain_length, done |-> chain = <<>>],
                        Len(chain))
    IN  [len |-> IF m.len <= lookahead THEN m.len ELSE lookahead, start |-> m.start]

\* _tr_tally: a literal (dist 0, lc the byte) or a match (lc its length less
\* MIN_MATCH).
Literal(byte) == [dist |-> 0, lc |-> byte]

Match(dist, length) == [dist |-> dist, lc |-> length - MIN_MATCH]

\* One turn of the loop of deflate_fast at s.strstart; s.ins is the set of
\* positions in the hash chains, s.out what was tallied.
deflate_fast(c, s) ==
    LET strstart == s.strstart
        lookahead == Len(c.window) - strstart
        chain == IF lookahead >= MIN_MATCH THEN hash_chain(c, s.ins, strstart) ELSE <<>>
        ins1 == IF lookahead >= MIN_MATCH THEN s.ins \cup {strstart} ELSE s.ins
        m == IF chain # <<>>
             THEN longest_match(c, s.ins, strstart, MIN_MATCH - 1, s.match_start)
             ELSE [len |-> MIN_MATCH - 1, start |-> s.match_start]
    IN  IF m.len >= MIN_MATCH
        THEN [s EXCEPT !.strstart = strstart + m.len,
                       !.ins = IF m.len <= c.cfg.max_lazy /\ lookahead - m.len >= MIN_MATCH
                               THEN ins1 \cup ((strstart + 1)..(strstart + m.len - 1))
                               ELSE ins1,
                       !.match_start = m.start,
                       !.out = Append(s.out, Match(strstart - m.start, m.len))]
        ELSE [s EXCEPT !.strstart = strstart + 1, !.ins = ins1, !.match_start = m.start,
                       !.out = Append(s.out, Literal(c.window[strstart + 1]))]

\* One turn of the loop of deflate_slow at s.strstart, with lazy evaluation
\* of matches.
deflate_slow(c, s) ==
    LET strstart == s.strstart
        lookahead == Len(c.window) - strstart
        chain == IF lookahead >= MIN_MATCH THEN hash_chain(c, s.ins, strstart) ELSE <<>>
        ins1 == IF lookahead >= MIN_MATCH THEN s.ins \cup {strstart} ELSE s.ins
        prev_length == s.match_length
        prev_match == s.match_start
        found == IF chain # <<>> /\ prev_length < c.cfg.max_lazy
                 THEN longest_match(c, s.ins, strstart, prev_length, prev_match)
                 ELSE [len |-> MIN_MATCH - 1, start |-> prev_match]
        m == IF found.len = MIN_MATCH /\ strstart - found.start > TOO_FAR
             THEN [len |-> MIN_MATCH - 1, start |-> found.start]
             ELSE found
    IN  IF prev_length >= MIN_MATCH /\ m.len <= prev_length
        THEN [strstart |-> strstart + prev_length - 1,
              ins |-> ins1 \cup {p \in (strstart + 1)..(strstart + prev_length - 2) :
                                    p <= strstart + lookahead - MIN_MATCH},
              match_length |-> MIN_MATCH - 1, match_start |-> m.start,
              match_available |-> FALSE,
              out |-> Append(s.out, Match(strstart - 1 - prev_match, prev_length))]
        ELSE [strstart |-> strstart + 1, ins |-> ins1,
              match_length |-> m.len, match_start |-> m.start,
              match_available |-> TRUE,
              out |-> IF s.match_available
                      THEN Append(s.out, Literal(c.window[strstart]))
                      ELSE s.out]

RECURSIVE deflate_loop(_, _, _)
\* At most n turns of the loop of deflate_fast (levels 1 to 3) or
\* deflate_slow (4 to 9), up to the end of the input.
deflate_loop(c, s, n) ==
    IF s.strstart >= Len(c.window) THEN s
    ELSE IF n <= 1 THEN (IF c.level <= 3 THEN deflate_fast(c, s) ELSE deflate_slow(c, s))
    ELSE LET half == deflate_loop(c, s, n \div 2)
         IN  IF half.strstart >= Len(c.window) THEN half
             ELSE deflate_loop(c, half, n - n \div 2)

\* The literals and matches deflate tallies for a buffer at a level; at the
\* end deflate_slow tallies the literal it still holds back.
Tally(data, level) ==
    LET c == [window |-> data, hash |-> Hashes(data), cfg |-> configuration_table[level],
              level |-> level]
        s == deflate_loop(c, [strstart |-> 0, ins |-> {}, match_length |-> MIN_MATCH - 1,
                              match_start |-> 0, match_available |-> FALSE, out |-> <<>>],
                          Len(data))
    IN  IF s.match_available THEN Append(s.out, Literal(c.window[s.strstart])) ELSE s.out

\* The frequencies of a sequence of symbols, as a function on those that occur.
Frequencies(syms) ==
    [n \in {syms[i] : i \in DOMAIN syms} |-> Cardinality({i \in DOMAIN syms : syms[i] = n})]

\* smaller(tree, n, m, depth) on two nodes of the heap.
smaller(n, m) == n.Freq < m.Freq \/ (n.Freq = m.Freq /\ n.depth <= m.depth)

RECURSIVE pqdownheap(_, _, _)
\* pqdownheap: the heap with the node v moved down from k.
pqdownheap(heap, k, v) ==
    IF 2 * k > Len(heap) THEN [heap EXCEPT ![k] = v]
    ELSE LET j == IF 2 * k < Len(heap) /\ smaller(heap[2 * k + 1], heap[2 * k])
                  THEN 2 * k + 1 ELSE 2 * k
         IN  IF smaller(v, heap[j]) THEN [heap EXCEPT ![k] = v]
             ELSE pqdownheap([heap EXCEPT ![k] = heap[j]], j, v)

RECURSIVE heap_init(_, _, _)
\* for (n = hi; n >= lo; n--) pqdownheap(s, tree, n)
heap_init(heap, lo, hi) ==
    IF lo > hi THEN heap
    ELSE IF lo = hi THEN pqdownheap(heap, lo, heap[lo])
    ELSE LET upper == heap_init(heap, (lo + hi) \div 2 + 1, hi)
         IN  heap_init(upper, lo, (lo + hi) \div 2)

\* A leaf of a tree, and the node over two nodes: below holds how deep
\* every node under a node is, the node itself at 0.
Leaf(n, f) == [n |-> n, Freq |-> f, depth |-> 0, below |-> [x \in {n} |-> 0]]

Dad(node, n, m) ==
    [n |-> node, Freq |-> n.Freq + m.Freq,
     depth |-> (IF n.depth >= m.depth THEN n.depth ELSE m.depth) + 1,
     below |-> [x \in DOMAIN n.below \cup DOMAIN m.below \cup {node} |->
                   IF x \in DOMAIN n.below THEN n.below[x] + 1
                   ELSE IF x \in DOMAIN m.below THEN m.below[x] + 1 ELSE 0]]

\* One turn of the loop of build_tree: the two least frequent nodes leave
\* the heap for its sorted end (t.sorted, the first to leave first) and their
\* dad, the node t.node, enters it.
huffman_step(t) ==
    LET heap == t.heap
        n == heap[1]
        removed == pqdownheap(SubSeq(heap, 1, Len(heap) - 1), 1, heap[Len(heap)])
        m == removed[1]
    IN  [heap |-> pqdownheap(removed, 1, Dad(t.node, n, m)),
         sorted |-> t.sorted \o <<n.n, m.n>>, node |-> t.node + 1]

RECURSIVE huffman(_, _)
\* At most k turns of the loop of build_tree, until one node is left.
huffman(t, k) ==
    IF Len(t.heap) < 2 THEN t
    ELSE IF k <= 1 THEN huffman_step(t)
    ELSE LET half == huffman(t, k \div 2)
         IN  IF Len(half.heap) < 2 THEN half ELSE huffman(half, k - k \div 2)

\* One turn of the loop of gen_bitlen that takes an overflow of code lengths
\* back: a leaf of the longest length under max_length moves one bit down and
\* shares its place with a leaf of length max_length.
overflow_step(w, max_length) ==
    LET bits == Max({b \in 1..(max_length - 1) : w.bl_count[b] # 0})
        c1 == [w.bl_count EXCEPT ![bits] = @ - 1]
        c2 == [c1 EXCEPT ![bits + 1] = @ + 2]
    IN  [bl_count |-> [c2 EXCEPT ![max_length] = @ - 1], overflow |-> w.overflow - 2]

RECURSIVE overflow_loop(_, _, _)
overflow_loop(w, max_length, k) ==
    IF w.overflow <= 0 THEN w
    ELSE IF k <= 1 THEN overflow_step(w, max_length)
    ELSE LET half == overflow_loop(w, max_length, k \div 2)
         IN  IF half.overflow <= 0 THEN half
             ELSE overflow_loop(half, max_length, k - k \div 2)

\* gen_bitlen: the code lengths of the leaves of the tree under root, none
\* above max_length.  A node deeper than max_length is an overflow; then the
\* lengths are dealt out again, the longest to the leaves that left the heap
\* first.
gen_bitlen(root, sorted, max_code, max_length) ==
    LET depth == root.below
        leaves == {x \in DOMAIN depth : x <= max_code}
        overflow == Cardinality({x \in DOMAIN depth : depth[x] > max_length})
        capped(x) == IF depth[x] > max_length THEN max_length ELSE depth[x]
        w == overflow_loop([bl_count |-> [b \in 1..max_length |->
                                             Cardinality({x \in leaves : capped(x) = b})],
                            overflow |-> overflow],
                           max_length, (overflow + 1) \div 2)
        order == SelectSeq(sorted, LAMBDA x : x <= max_code)
        upto(b) == Sum(w.bl_count, b, max_length)
        bits_at(p) == CHOOSE b \in 1..max_length : upto(b + 1) < p /\ p <= upto(b)
    IN  IF overflow = 0 THEN [x \in leaves |-> depth[x]]
        ELSE [x \in leaves |-> bits_at(CHOOSE p \in DOMAIN order : order[p] = x)]

\* build_tree: the code lengths of the symbols that occur (and of the one or
\* two it adds to have two codes), and max_code.
build_tree(freq, elems, max_length) ==
    LET used == DOMAIN freq
        forced == IF Cardinality(used) >= 2 THEN <<>>
                  ELSE IF used = {} THEN <<0, 1>>
                  ELSE IF Max(used) < 2 THEN <<Max(used) + 1>>
                  ELSE <<0>>
        order == Ascending(used)
        heap == [i \in 1..Len(order) |-> Leaf(order[i], freq[order[i]])]
                    \o [i \in 1..Len(forced) |-> Leaf(forced[i], 1)]
        max_code == Max(used \cup {forced[i] : i \in DOMAIN forced})
        t == huffman([heap |-> heap_init(heap, 1, Len(heap) \div 2), sorted |-> <<>>,
                      node |-> elems], Len(heap) - 1)
    IN  [freq |-> freq, len |-> gen_bitlen(t.heap[1], t.sorted, max_code, max_length),
         max_code |-> max_code, static |-> FALSE]

\* static_ltree and static_dtree: the trees of a fixed block.
static_ltree ==
    [freq |-> <<>>, len |-> [n \in 0..287 |-> static_len(n)], max_code |-> 287, static |-> TRUE]

static_dtree == [freq |-> <<>>, len |-> [n \in 0..29 |-> 5], max_code |-> 29, static |-> TRUE]

LenOf(tree, n) == IF n \in DOMAIN tree.len THEN tree.len[n] ELSE 0

bl_count(tree, bits) == Cardinality({n \in DOMAIN tree.len : tree.len[n] = bits})

RECURSIVE next_code(_, _)
next_code(tree, bits) ==
    IF bits = 0 THEN 0 ELSE 2 * (next_code(tree, bits - 1) + bl_count(tree, bits - 1))

\* gen_codes and send_code: the bits of symbol n in a tree.
send_code(n, tree) ==
    IF tree.static
    THEN code_bits(IF tree.max_code = 287 THEN static_code(n) ELSE n, tree.len[n])
    ELSE code_bits(next_code(tree, tree.len[n])
                       + Cardinality({m \in DOMAIN tree.len :
                                         m < n /\ tree.len[m] = tree.len[n]}),
                   tree.len[n])

Run(sym, extra, bits) == [sym |-> sym, extra |-> extra, bits |-> bits]

RECURSIVE RunOf(_, _, _, _)
\* How many of the symbols n, n + 1, ... of a tree have the code length of
\* n, counted up to max_count.
RunOf(tree, n, count, max_count) ==
    IF LenOf(tree, n) = 0
    THEN LET run == (CHOOSE m \in DOMAIN tree.len :
                        m > n /\ \A x \in DOMAIN tree.len : x > n => m <= x) - n
         IN  IF run < max_count THEN run ELSE max_count
    ELSE IF count < max_count /\ n + count <= tree.max_code
            /\ LenOf(tree, n + count) = LenOf(tree, n)
    THEN RunOf(tree, n, count + 1, max_count)
    ELSE count

\* One turn of scan_tree and send_tree on a run of equal code lengths from
\* the symbol w.n on: the run-length symbols of the bit length code for it.
scan_run(tree, w) ==
    LET n == w.n
        curlen == LenOf(tree, n)
        count == RunOf(tree, n, 1, w.max_count)
        nextlen == IF n + count > tree.max_code THEN 65535 ELSE LenOf(tree, n + count)
        runs == IF count < w.min_count THEN [i \in 1..count |-> Run(curlen, 0, 0)]
                ELSE IF curlen # 0
                THEN IF curlen # w.prevlen
                     THEN <<Run(curlen, 0, 0), Run(REP_3_6, count - 4, 2)>>
                     ELSE <<Run(REP_3_6, count - 3, 2)>>
                ELSE IF count <= 10 THEN <<Run(REPZ_3_10, count - 3, 3)>>
                ELSE <<Run(REPZ_11_138, count - 11, 7)>>
    IN  [n |-> n + count, prevlen |-> curlen,
         max_count |-> IF nextlen = 0 THEN 138 ELSE IF curlen = nextlen THEN 6 ELSE 7,
         min_count |-> IF nextlen = 0 \/ curlen = nextlen THEN 3 ELSE 4,
         out |-> w.out \o runs]

RECURSIVE scan_tree(_, _, _)
\* At most k turns of scan_tree, up to max_code.
scan_tree(tree, w, k) ==
    IF w.n > tree.max_code THEN w
    ELSE IF k <= 1 THEN scan_run(tree, w)
    ELSE LET half == scan_tree(tree, w, k \div 2)
         IN  IF half.n > tree.max_code THEN half ELSE scan_tree(tree, half, k - k \div 2)

send_tree(tree) ==
    scan_tree(tree,
              [n |-> 0, prevlen |-> -1, max_count |-> IF LenOf(tree, 0) = 0 THEN 138 ELSE 7,
               min_count |-> IF LenOf(tree, 0) = 0 THEN 3 ELSE 4, out |-> <<>>],
              tree.max_code + 1).out

\* The bits of what was tallied, in the codes lcode and dcode, and END_BLOCK.
compress_block(tally, ltree, dtree) ==
    LET bits(t) == IF t.dist = 0 THEN send_code(t.lc, ltree)
                   ELSE LET code == length_code(t.lc)
                            dc == d_code(t.dist - 1)
                        IN  send_code(code + LITERALS + 1, ltree)
                            \o send_bits(t.lc - base_length[code + 1], extra_lbits[code + 1])
                            \o send_code(dc, dtree)
                            \o send_bits(t.dist - 1 - base_dist[dc + 1], extra_dbits[dc + 1])
    IN  Join([i \in DOMAIN tally |-> bits(tally[i])], 1, Len(tally))
            \o send_code(END_BLOCK, ltree)

\* _tr_stored_block: the bytes of a stored block.
stored_block(data, last) ==
    <<last, Len(data) % 256, Len(data) \div 256,
      255 - (Len(data) % 256), 255 - (Len(data) \div 256)>> \o data

\* The bits of the symbols counted in freq when symbol n takes cost[n] bits.
Weighted(freq, cost) ==
    LET order == Ascending(DOMAIN freq)
    IN  Sum([i \in DOMAIN order |-> freq[order[i]] * cost[order[i]]], 1, Len(order))

\* build_bl_tree: the code lengths of both trees in run-length symbols, the
\* tree of the bit length code for them, and the index in bl_order of the last
\* bit length code to send.
build_bl_tree(lengths, bltree) ==
    [lengths |-> lengths, tree |-> bltree,
     max_blindex |-> IF \E r \in 3..18 : LenOf(bltree, bl_order[r + 1]) # 0
                     THEN Max({r \in 3..18 : LenOf(bltree, bl_order[r + 1]) # 0})
                     ELSE 2]

\* send_all_trees: the header of a dynamic block.
send_all_trees(ltree, dtree, bl) ==
    send_bits(ltree.max_code + 1 - 257, 5)
        \o send_bits(dtree.max_code + 1 - 1, 5)
        \o send_bits(bl.max_blindex + 1 - 4, 4)
        \o Join([r \in 1..(bl.max_blindex + 1) |-> send_bits(LenOf(bl.tree, bl_order[r]), 3)],
                1, bl.max_blindex + 1)
        \o Join([i \in DOMAIN bl.lengths |->
                    send_code(bl.lengths[i].sym, bl.tree)
                        \o send_bits(bl.lengths[i].extra, bl.lengths[i].bits)],
                1, Len(bl.lengths))

\* The choice of _tr_flush_block between a stored, a fixed and a dynamic
\* block, by the lengths opt_len and static_len (static_bits) of the latter two.
tr_flush_block(data, tally, ltree, dtree, bl) ==
    LET lextra == [n \in DOMAIN ltree.freq |->
                      IF n > LITERALS THEN extra_lbits[n - LITERALS] ELSE 0]
        dextra == [n \in DOMAIN dtree.freq |-> extra_dbits[n + 1]]
        opt_len == Weighted(ltree.freq, [n \in DOMAIN ltree.freq |-> ltree.len[n] + lextra[n]])
                   + Weighted(dtree.freq, [n \in DOMAIN dtree.freq |-> dtree.len[n] + dextra[n]])
                   + Weighted(bl.tree.freq, [n \in DOMAIN bl.tree.freq |->
                                                bl.tree.len[n] + extra_blbits[n + 1]])
                   + 3 * (bl.max_blindex + 1) + 5 + 5 + 4
        static_bits == Weighted(ltree.freq, [n \in DOMAIN ltree.freq |->
                                               static_ltree.len[n] + lextra[n]])
                      + Weighted(dtree.freq, [n \in DOMAIN dtree.freq |-> 5 + dextra[n]])
        static_lenb == (static_bits + 3 + 7) \div 8
        opt_lenb == IF static_lenb <= (opt_len + 3 + 7) \div 8
                    THEN static_lenb ELSE (opt_len + 3 + 7) \div 8
    IN  IF Len(data) + 4 <= opt_lenb THEN stored_block(data, 1)
        ELSE IF static_lenb = opt_lenb
        THEN bi_windup(send_bits(3, 3) \o compress_block(tally, static_ltree, static_dtree))
        ELSE bi_windup(send_bits(5, 3) \o send_all_trees(ltree, dtree, bl)
                           \o compress_block(tally, ltree, dtree))

\* The trees of a block, then the bit length tree of the two.
flush_trees(data, tally, ltree, dtree, lengths) ==
    tr_flush_block(data, tally, ltree, dtree,
        build_bl_tree(lengths,
                      build_tree(Frequencies([i \in DOMAIN lengths |-> lengths[i].sym]),
                                 BL_CODES, MAX_BL_BITS)))

flush_ld(data, tally, ltree, dtree) ==
    flush_trees(data, tally, ltree, dtree, send_tree(ltree) \o send_tree(dtree))

\* FLUSH_BLOCK for the one block of a buffer, the last: the frequencies of
\* what was tallied and the two trees for them.
flush_block(data, tally) ==
    LET lsym(t) == IF t.dist = 0 THEN t.lc ELSE length_code(t.lc) + LITERALS + 1
        matches == SelectSeq(tally, LAMBDA t : t.dist # 0)
    IN  flush_ld(data, tally,
            build_tree(Frequencies([i \in DOMAIN tally |-> lsym(tally[i])] \o <<END_BLOCK>>),
                       L_CODES, MAX_BITS),
            build_tree(Frequencies([i \in DOMAIN matches |-> d_code(matches[i].dist - 1)]),
                       D_CODES, MAX_BITS))

\* The second header byte of a stream written at a level.
ZFlag(level) ==
    IF level <= 1 THEN 1 ELSE IF level <= 5 THEN 94 ELSE IF level = 6 THEN 156 ELSE 218

\* zlib.compress(data, level), level 0 to 9.
compress(data, level) ==
    <<120, ZFlag(level)>>
        \o (IF level = 0 THEN stored_block(data, 1) ELSE flush_block(data, Tally(data, level)))
        \o adler32(data)

\* What a decompressobj answers: the bytes decompress() and flush() return
\* and unused_data, or zlib.error.
Inflated(out, unused_data) ==
    [st |-> "ok", why |-> "", out |-> out, unused_data |-> unused_data]

ZlibError(why) == [st |-> "zlib.error", why |-> why, out |-> <<>>, unused_data |-> <<>>]

\* The bit at position pos of the input, counted from 0, lowest bit of a
\* byte first.
Bit(data, pos) == (data[(pos \div 8) + 1] \div Pow2(pos % 8)) % 2

\* NEEDBITS: are n more bits there?
Avail(data, pos, n) == pos + n <= 8 * Len(data)

RECURSIVE BITS(_, _, _)
BITS(data, pos, n) == IF n = 0 THEN 0 ELSE Bit(data, pos) + 2 * BITS(data, pos + 1, n - 1)

\* inflate_table: a decoding table of the canonical code with the lengths
\* lens (of symbol n at n + 1): the count of codes of each length, the symbols
\* in the order of their codes, the longest length, and what is left of the
\* code space.
inflate_table(lens) ==
    LET count == [l \in 1..15 |-> Cardinality({s \in DOMAIN lens : lens[s] = l})]
        RECURSIVE Left(_)
        Left(l) == IF l = 0 THEN 1 ELSE 2 * Left(l - 1) - count[l]
        coded == {s \in DOMAIN lens : lens[s] > 0}
        rank == [s \in coded |->
                    Cardinality({t \in coded :
                                    lens[t] < lens[s] \/ (lens[t] = lens[s] /\ t < s)}) + 1]
    IN  [count |-> count,
         symbol |-> [i \in 1..Cardinality(coded) |-> (CHOOSE s \in coded : rank[s] = i) - 1],
         max |-> IF \E l \in 1..15 : count[l] > 0 THEN Max({l \in 1..15 : count[l] > 0}) ELSE 0,
         left |-> Left(15)]

\* inflate_table's verdict: no code over-subscribed, and none incomplete but
\* a single code of one bit (codes is TRUE for the bit length code).
table_ok(h, codes) == h.max = 0 \/ (h.left >= 0 /\ (h.left = 0 \/ (~codes /\ h.max = 1)))

Symbol(st, sym, pos) == [st |-> st, sym |-> sym, pos |-> pos]

RECURSIVE decode_walk(_, _, _, _, _, _, _)
decode_walk(data, pos, h, len, code, first, index) ==
    IF ~Avail(data, pos, 1) THEN Symbol("need", 0, pos)
    ELSE LET c == code + Bit(data, pos)
         IN  IF c - h.count[len] < first
             THEN Symbol("ok", h.symbol[index + (c - first) + 1], pos + 1)
             ELSE IF len >= h.max THEN Symbol("invalid", 0, pos + 1)
             ELSE decode_walk(data, pos + 1, h, len + 1, 2 * c, 2 * (first + h.count[len]),
                              index + h.count[len])

\* The next symbol of the input in the code of table h: "need" when the bits
\* there do not make a code yet, "invalid" on bits that are no code.
decode_symbol(data, pos, h) ==
    IF h.max = 0
    THEN IF Avail(data, pos, 1) THEN Symbol("invalid", 0, pos + 1) ELSE Symbol("need", 0, pos)
    ELSE decode_walk(data, pos, h, 1, 0, 0, 0)

\* The tables of the fixed codes.
fixed_lencode ==
    [count |-> [l \in 1..15 |-> IF l = 7 THEN 24 ELSE IF l = 8 THEN 152
                                 ELSE IF l = 9 THEN 112 ELSE 0],
     symbol |-> [i \in 1..288 |-> IF i <= 24 THEN 255 + i ELSE IF i <= 168 THEN i - 25
                                   ELSE IF i <= 176 THEN 111 + i ELSE i - 33],
     max |-> 9, left |-> 0]

fixed_distcode ==
    [count |-> [l \in 1..15 |-> IF l = 5 THEN 32 ELSE 0], symbol |-> [i \in 1..32 |-> i - 1],
     max |-> 5, left |-> 0]

\* The copy of a match: length bytes from dist bytes back, which may run
\* into the bytes the copy itself writes.
copy_match(out, dist, length) ==
    out \o [i \in 1..length |-> out[Len(out) - dist + 1 + ((i - 1) % dist)]]

\* The state of inflate: its mode, the position in the input in bits, the
\* output so far, whether the block is the last one, the code lengths read
\* and the tables in use; in the mode DONE, the answer.
InflateState(mode, pos, out) ==
    [mode |-> mode, pos |-> pos, out |-> out, last |-> 0, lens |-> <<>>, nlen |-> 0,
     total |-> 0, lencode |-> fixed_lencode, distcode |-> fixed_distcode,
     res |-> Inflated(<<>>, <<>>)]

Done(s, answer) == [s EXCEPT !.mode = "DONE", !.res = answer]

\* The end of a block: the next block, or after the last one the trailer.
block_end(s, pos, out) ==
    [s EXCEPT !.mode = IF s.last = 1 THEN "CHECK" ELSE "TYPE", !.pos = pos, !.out = out]

\* The state STORED: a stored block, whose header starts at the next byte.
inflate_stored(data, s) ==
    LET at == (s.pos + 7) \div 8
        length == data[at + 1] + 256 * data[at + 2]
        there == Len(data) - (at + 4)
    IN  IF Len(data) < at + 4 THEN Done(s, Inflated(s.out, <<>>))
        ELSE IF length # 65535 - (data[at + 3] + 256 * data[at + 4])
        THEN Done(s, ZlibError("invalid stored block lengths"))
        ELSE IF there < length THEN Done(s, Inflated(s.out \o From(data, at + 5), <<>>))
        ELSE block_end(s, 8 * (at + 4 + length), s.out \o SubSeq(data, at + 5, at + 4 + length))

\* The states TABLE and LENLENS: the header of a dynamic block and the code
\* of its code lengths.
inflate_dynamic(data, s) ==
    LET pos == s.pos
        nlen == BITS(data, pos, 5) + 257
        ndist == BITS(data, pos + 5, 5) + 1
        ncode == BITS(data, pos + 10, 4) + 4
        lenlens == [n \in 1..19 |->
                       IF \E r \in 1..ncode : bl_order[r] = n - 1
                       THEN BITS(data,
                                 pos + 14 + 3 * ((CHOOSE r \in 1..ncode : bl_order[r] = n - 1) - 1),
                                 3)
                       ELSE 0]
        h == inflate_table(lenlens)
    IN  IF ~Avail(data, pos, 14) THEN Done(s, Inflated(s.out, <<>>))
        ELSE IF nlen > 286 \/ ndist > 30
        THEN Done(s, ZlibError("too many length or distance symbols"))
        ELSE IF ~Avail(data, pos + 14, 3 * ncode) THEN Done(s, Inflated(s.out, <<>>))
        ELSE IF ~table_ok(h, TRUE) THEN Done(s, ZlibError("invalid code lengths set"))
        ELSE [s EXCEPT !.mode = "CODELENS", !.pos = pos + 14 + 3 * ncode, !.lens = <<>>,
                       !.nlen = nlen, !.total = nlen + ndist, !.lencode = h]

\* The state CODELENS: the next of the nlen + ndist code lengths of a dynamic
\* block, read in the code s.lencode; after the last one, the tables of the
\* block.
inflate_codelens(data, s) ==
    LET lens == s.lens
        here == decode_symbol(data, s.pos, s.lencode)
        need == Done(s, Inflated(s.out, <<>>))
        bad == Done(s, ZlibError("invalid bit length repeat"))
        xbits == IF here.sym = REP_3_6 THEN 2 ELSE IF here.sym = REPZ_3_10 THEN 3 ELSE 7
        copy == (IF here.sym = REPZ_11_138 THEN 11 ELSE 3) + BITS(data, here.pos, xbits)
        lencode == inflate_table(SubSeq(lens, 1, s.nlen))
        distcode == inflate_table(SubSeq(lens, s.nlen + 1, s.total))
    IN  IF Len(lens) >= s.total
        THEN IF lens[END_BLOCK + 1] = 0
             THEN Done(s, ZlibError("invalid code -- missing end-of-block"))
             ELSE IF ~table_ok(lencode, FALSE)
             THEN Done(s, ZlibError("invalid literal/lengths set"))
             ELSE IF ~table_ok(distcode, FALSE) THEN Done(s, ZlibError("invalid distances set"))
             ELSE [s EXCEPT !.mode = "LEN", !.lencode = lencode, !.distcode = distcode]
        ELSE IF here.st = "need" THEN need
        ELSE IF here.st = "invalid" THEN [s EXCEPT !.pos = here.pos, !.lens = Append(lens, 0)]
        ELSE IF here.sym < 16 THEN [s EXCEPT !.pos = here.pos, !.lens = Append(lens, here.sym)]
        ELSE IF ~Avail(data, here.pos, xbits) THEN need
        ELSE IF here.sym = REP_3_6 /\ lens = <<>> THEN bad
        ELSE IF Len(lens) + copy > s.total THEN bad
        ELSE [s EXCEPT !.pos = here.pos + xbits,
                       !.lens = lens \o [i \in 1..copy |->
                                            IF here.sym = REP_3_6 THEN lens[Len(lens)] ELSE 0]]

\* The states LEN to MATCH: the next literal, match or end of block in the
\* codes s.lencode and s.distcode.
inflate_len(data, s) ==
    LET out == s.out
        here == decode_symbol(data, s.pos, s.lencode)
        code == here.sym - 257
        xl == extra_lbits[code + 1]
        length == 3 + base_length[code + 1] + BITS(data, here.pos, xl)
        d == decode_symbol(data, here.pos + xl, s.distcode)
        xd == extra_dbits[d.sym + 1]
        dist == 1 + base_dist[d.sym + 1] + BITS(data, d.pos, xd)
    IN  IF here.st = "need" THEN Done(s, Inflated(out, <<>>))
        ELSE IF here.st = "invalid" \/ here.sym > 285
        THEN Done(s, ZlibError("invalid literal/length code"))
        ELSE IF here.sym < END_BLOCK THEN [s EXCEPT !.pos = here.pos, !.out = Append(out, here.sym)]
        ELSE IF here.sym = END_BLOCK THEN block_end(s, here.pos, out)
        ELSE IF ~Avail(data, here.pos, xl) \/ d.st = "need" THEN Done(s, Inflated(out, <<>>))
        ELSE IF d.st = "invalid" \/ d.sym > 29 THEN Done(s, ZlibError("invalid distance code"))
        ELSE IF ~Avail(data, d.pos, xd) THEN Done(s, Inflated(out, <<>>))
        ELSE IF dist > Len(out) THEN Done(s, ZlibError("invalid distance too far back"))
        ELSE [s EXCEPT !.pos = d.pos + xd, !.out = copy_match(out, dist, length)]

\* The state TYPE: the three bits at the head of a block.
inflate_type(data, s) ==
    IF ~Avail(data, s.pos, 3) THEN Done(s, Inflated(s.out, <<>>))
    ELSE LET type == BITS(data, s.pos + 1, 2)
             t == [s EXCEPT !.last = Bit(data, s.pos), !.pos = s.pos + 3]
         IN  IF type = 0 THEN inflate_stored(data, t)
             ELSE IF type = 1
             THEN [t EXCEPT !.mode = "LEN", !.lencode = fixed_lencode,
                            !.distcode = fixed_distcode]
             ELSE IF type = 2 THEN inflate_dynamic(data, t)
             ELSE Done(s, ZlibError("invalid block type"))

\* The state CHECK: the Adler-32 trailer after the last block, and the end
\* of the stream.
inflate_check(data, s) ==
    LET at == (s.pos + 7) \div 8
    IN  IF Len(data) < at + 4 THEN Done(s, Inflated(s.out, <<>>))
        ELSE IF SubSeq(data, at + 1, at + 4) # adler32(s.out)
        THEN Done(s, ZlibError("incorrect data check"))
        ELSE Done(s, Inflated(s.out, From(data, at + 5)))

\* One turn of the loop of inflate.
inflate_step(data, s) ==
    IF s.mode = "TYPE" THEN inflate_type(data, s)
    ELSE IF s.mode = "CODELENS" THEN inflate_codelens(data, s)
    ELSE IF s.mode = "LEN" THEN inflate_len(data, s)
    ELSE IF s.mode = "CHECK" THEN inflate_check(data, s)
    ELSE s

RECURSIVE inflate_loop(_, _, _)
\* At most n turns of the loop of inflate, up to the mode DONE.
inflate_loop(data, s, n) ==
    IF s.mode = "DONE" THEN s
    ELSE IF n <= 1 THEN inflate_step(data, s)
    ELSE LET half == inflate_loop(data, s, n \div 2)
         IN  IF half.mode = "DONE" THEN half ELSE inflate_loop(data, half, n - n \div 2)

\* inflate from the state HEAD: the two bytes of the zlib header first, then
\* the loop; no turn but the last of a block and the trailer's reads no bit.
inflate(data) ==
    IF Len(data) < 2 THEN Inflated(<<>>, <<>>)
    ELSE IF (256 * data[1] + data[2]) % 31 # 0 THEN ZlibError("incorrect header check")
    ELSE IF data[1] % 16 # 8 THEN ZlibError("unknown compression method")
    ELSE IF data[1] \div 16 > 7 THEN ZlibError("invalid window size")
    ELSE IF (data[2] \div 32) % 2 = 1
    THEN IF Len(data) < 6 THEN Inflated(<<>>, <<>>) ELSE ZlibError("need dictionary")
    ELSE inflate_loop(data, InflateState("TYPE", 16, <<>>), 16 * Len(data) + 4).res

\* d = decompressobj(); d.decompress(data) + d.flush(), with d.unused_data.
decompress(data) == inflate(data)

\* a decoder that asks for a second byte before it looks at the first
decode_length_first(string) ==
    IF Len(string) < 2 THEN IncompleteData
    ELSE IF string[1] # VERSION THEN Raise("ValueError", "unknown protocol version")
    ELSE decode_term(From(string, 2))

\* a decoder that hands back no unconsumed bytes
decode_whole_buffer(string) ==
    IF string = <<>> THEN IncompleteData
    ELSE IF string[1] # VERSION THEN Raise("ValueError", "unknown protocol version")
    ELSE LET r == decode_term(From(string, 2))
         IN  IF r.st = "ok" THEN Ok(r.term, <<>>) ELSE r

(***************************************************************************)
(* decode: the top-level decoder.                                          *)
(***************************************************************************)
\* term, _tail = decode_term(term_string); return term, d.unused_data
tail_of(r, unused_data) == IF r.st # "ok" THEN r ELSE Ok(r.term, unused_data)

\* The branch of decode for the compressed envelope, d the decompressobj
\* after decompress() and flush().
decode_compressed(string, d) ==
    LET term_string == d.out
        uncompressed_size == int4_unpack(SubSeq(string, 3, 6))
    IN  IF d.st # "ok" THEN Raise(d.st, d.why)
        ELSE IF IntOfNat(Len(term_string)) # uncompressed_size
        THEN Raise("ValueError", "invalid compressed tag")
        ELSE tail_of(decode_term(term_string), d.unused_data)

decode(string) ==
    IF string = <<>> THEN IncompleteData
    ELSE IF string[1] # VERSION THEN Raise("ValueError", "unknown protocol version")
    ELSE IF Len(string) >= 2 /\ string[2] = COMPRESSED THEN
        IF Len(string) < 6 THEN IncompleteData
        ELSE decode_compressed(string, decompress(From(string, 7)))
    ELSE decode_term(From(string, 2))

(***************************************************************************)
(* encode: the top-level encoder.  compressed is the argument as passed: a *)
(* bool (False, True) or a level.                                          *)
(***************************************************************************)
Level(n) == [bool |-> FALSE, v |-> n]
PyFalse == [bool |-> TRUE, v |-> 0]
PyTrue == [bool |-> TRUE, v |-> 1]

\* The level compress() is called with: True stands for 6.
LevelOf(c) == IF c.bool THEN 6 ELSE c.v

\* an encoder that keeps the compressed form whenever compression is asked for
encode_no_fallback(x, c) ==
    IF c.v # 0
    THEN <<VERSION, COMPRESSED>> \o int4_pack(Len(encode_term(x)))
             \o compress(encode_term(x), LevelOf(c))
    ELSE <<VERSION>> \o encode_term(x)

\* The choice of encode between the envelope and the plain bytes.
encode_compressed(encoded_term, zterm) ==
    LET ln == Len(encoded_term)
    IN  IF Len(zterm) + 5 <= ln
        THEN <<VERSION, COMPRESSED>> \o int4_pack(ln) \o zterm
        ELSE <<VERSION>> \o encoded_term

encode_with(encoded_term, c) ==
    IF c.v # 0
    THEN encode_compressed(encoded_term, compress(encoded_term, LevelOf(c)))
    ELSE <<VERSION>> \o encoded_term

encode(x, c) == encode_with(encode_term(x), c)

(***************************************************************************)
(* The terms a caller hands to the encoder.  Every improper list has at    *)
(* least one element and a tail that is no list, every opaque object a     *)
(* language that is an atom: the constructors refuse anything else.        *)
(***************************************************************************)
MaxLen == 2

SeqsUpTo(S, n) == UNION {[1..m -> S] : m \in 0..n}

Name_a == <<97>>
Name_ruby == <<114, 117, 98, 121>>

Ints == {Int0, Long(0, <<1>>), Int255, Long(0, <<0, 1>>), Long(1, <<1>>),
         IntMax4, Long(0, <<0, 0, 0, 128>>), IntMin4, Long(1, <<0, 0, 0, 0, 0, 1>>)}

\* 1.5, -2.0 and the smallest denormal
Floats == {Float(1023, <<8, 0, 0, 0, 0, 0, 0>>), Float(3072, <<0, 0, 0, 0, 0, 0, 0>>),
           Float(0, <<0, 0, 0, 0, 0, 0, 1>>)}

Atoms == {Atom(Name_a), Atom(<<>>), Atom(TrueName), Atom(FalseName), Atom(UndefinedName),
          marker, python}

Strs == {Str(<<>>), Str(<<97, 98>>), Str(MarkerName)}

Unicodes == {Unicode(<<>>), Unicode(<<104, 105>>), Unicode(<<104, 256>>)}

Languages == {Atom(Name_ruby), Atom(ErlangName), python, Atom(TrueName), Atom(FalseName),
              Atom(UndefinedName)}

\* The data of an object of the peer runtime is a term the peer encoded.
Opaques == {OpaqueObject(<<0, 255>>, l) : l \in Languages \ {Atom(ErlangName)}}
               \cup {OpaqueObject(<<SMALL_INTEGER_EXT, 7>>, Atom(ErlangName)),
                     OpaqueObject(<<PROTO, 2, BININT1, 7, STOP>>, python)}

\* Objects with no term form: the empty dict.
Natives == {Native(DictPickle)}

Leaves == Ints \cup Floats \cup Atoms \cup {True, False, None} \cup Strs
              \cup Unicodes \cup Opaques \cup Natives

Elems == {Long(0, <<1>>), Long(0, <<0, 1>>), True, False, None, Atom(Name_a), Str(<<97, 98>>)}

Tails == {Long(0, <<1>>), True, Atom(Name_a)}

FlatOver(E, T) ==
    {Tuple(e) : e \in SeqsUpTo(E, MaxLen)}
        \cup {List(e) : e \in SeqsUpTo(E, MaxLen)}
        \cup {ImproperList(e, t) : e \in SeqsUpTo(E, MaxLen) \ {<<>>}, t \in T}

Flat == FlatOver(Elems, Tails)

\* Tuples that start with the opaque marker.
Marked == {Tuple(<<marker, l, d>>) :
               l \in {Atom(Name_ruby), python, Str(PythonName), Str(Name_ruby),
                      Atom(TrueName), Long(0, <<1>>)},
               d \in {Str(<<0, 255>>), Long(0, <<1>>), Str(DictPickle),
                      Str(<<PROTO, 2, EMPTY_LIST, BINPUT, 1, BININT1, 1, APPEND, STOP>>),
                      Atom(Name_a)}}
              \cup {Tuple(<<marker, python>>), Tuple(<<Str(MarkerName), Atom(Name_ruby), Str(<<>>)>>)}

Nested == {Tuple(<<c>>) : c \in Flat \cup Leaves}
              \cup {List(<<c>>) : c \in Flat \cup Leaves}
              \cup {ImproperList(<<c>>, None) : c \in Flat}
              \cup {ImproperList(<<True>>, c) : c \in {f \in Flat : f.k = "tuple"}}

Terms == Leaves \cup Flat \cup Marked \cup Nested

(***************************************************************************)
(* Spec: a caller encodes a term without compression and decodes the       *)
(* bytes it got.                                                           *)
(***************************************************************************)
NoResult == Raise("-", "")

Idle ==
    /\ compressed = PyFalse /\ zlib_term = <<>> /\ wire = <<>> /\ buf = <<>>
    /\ res = NoResult /\ frame = <<>> /\ msgs = <<>> /\ sent = 0 /\ emitted = <<>>

Init ==
    /\ pc = "encode"
    /\ term \in Terms
    /\ Idle

Encode ==
    /\ pc = "encode"
    /\ wire' = encode(term, PyFalse)
    /\ pc' = "decode"
    /\ UNCHANGED <<term, compressed, zlib_term, buf, res, frame, msgs, sent, emitted>>

Decode ==
    /\ pc = "decode"
    /\ buf' = wire
    /\ res' = decode(wire)
    /\ pc' = "done"
    /\ UNCHANGED <<term, compressed, zlib_term, wire, frame, msgs, sent, emitted>>

Next == Encode \/ Decode

Spec == Init /\ [][Next]_vars

(***************************************************************************)
(* Properties of the round trip (Spec).                                    *)
(***************************************************************************)
ReservedNames == {TrueName, FalseName, UndefinedName}

\* A list the encoder writes in the compact string form.
IsStringForm(x) == x.k = "list" /\ x.e # <<>> /\ StringForm(x.e)

\* The terms that come back as they went in: no text, no atom spelled true,
\* false or undefined, no boolean in a list written in the string form, no
\* tuple of three that starts with the opaque marker, no opaque object of the
\* languages erlang and python.
RECURSIVE Exact(_)
Exact(x) ==
    CASE x.k = "unicode" -> FALSE
      [] x.k = "atom" -> x.b \notin ReservedNames
      [] x.k = "list" ->
            /\ \A i \in 1..Len(x.e) : Exact(x.e[i])
            /\ ~(IsStringForm(x) /\ \E i \in 1..Len(x.e) : x.e[i].k = "bool")
      [] x.k = "tuple" ->
            /\ \A i \in 1..Len(x.e) : Exact(x.e[i])
            /\ ~(Len(x.e) = 3 /\ IsMarker(x.e[1]))
      [] x.k = "improper" -> Exact(x.t[1]) /\ \A i \in 1..Len(x.e) : Exact(x.e[i])
      [] x.k = "opaque" -> x.t[1].b \notin (ReservedNames \cup {ErlangName, PythonName})
      [] OTHER -> TRUE

\* C1 as claimed: decode(encode(t, compression disabled)) returns (t, empty
\* remainder) for every term t.
C1_RoundTripEveryTerm == pc = "done" => res = Ok(term, <<>>)

\* C1 as amended: decode(encode(t, disabled)) returns (t, empty remainder) for
\* every term t outside the exceptions Exact lists; a text comes back as the
\* list of its code points, and a list written in the string form comes back
\* as the list of its byte values, a boolean in it as the integer 1 or 0.
C1_RoundTrip ==
    pc = "done" =>
        /\ Exact(term) => res = Ok(term, <<>>)
        /\ term.k = "unicode" =>
               res = Ok(List([i \in 1..Len(term.b) |-> IntOfNat(term.b[i])]), <<>>)
        /\ IsStringForm(term) =>
               res = Ok(List([i \in 1..Len(term.e) |-> IntOfNat(ArrayByte(term.e[i]))]), <<>>)

C1_Witness ==
    /\ pc = "done" /\ res.st = "ok" /\ Exact(term)
    /\ term.k = "improper" /\ term.e[1].k = "list" /\ term.e[1].e # <<>>

\* The fixed atom encodings of true, false and undefined.
FixedAtom(x) ==
    IF x = True THEN <<ATOM_EXT, 0, 4>> \o TrueName
    ELSE IF x = False THEN <<ATOM_EXT, 0, 5>> \o FalseName
    ELSE <<ATOM_EXT, 0, 9>> \o UndefinedName

IsFixed(x) == x \in {True, False, None}

Element(x) == IF IsFixed(x) THEN FixedAtom(x) ELSE encode_term(x)

\* Tuple, list or improper list x written element by element.
ElementWise(x) ==
    LET body == Flatten([i \in 1..Len(x.e) |-> Element(x.e[i])])
    IN  IF x.k = "tuple" THEN <<SMALL_TUPLE_EXT, Len(x.e)>> \o body
        ELSE IF x.k = "list" THEN <<LIST_EXT>> \o int4_pack(Len(x.e)) \o body \o <<NIL_EXT>>
        ELSE <<LIST_EXT>> \o int4_pack(Len(x.e)) \o body \o Element(x.t[1])

\* C8: a boolean or the no-value sentinel, at top level or as an element of a
\* tuple, a proper list or an improper list, is encoded as the fixed atom
\* true, false or undefined, never as an integer or a byte of the string form.
C8_BooleanPrecedence ==
    pc = "decode" =>
        /\ IsFixed(term) => wire = <<VERSION>> \o FixedAtom(term)
        /\ (/\ term.k \in {"tuple", "list", "improper"}
            /\ \E i \in 1..Len(term.e) : IsFixed(term.e[i]))
               => wire = <<VERSION>> \o ElementWise(term)

\* The decoded form of element i of the tuple handed to the encoder.
Decoded(x) == decode_term(encode_term(x)).term

IsMarked(x) == x.k = "tuple" /\ Len(x.e) = 3 /\ x.e[1] = marker

OpaqueWire(x) ==
    IF x.t[1].b = ErlangName THEN x.b
    ELSE encode_term(Tuple(<<marker, x.t[1], Str(x.b)>>))

Options == {PyFalse, PyTrue} \cup {Level(n) : n \in 0..9}

Repeat(x, n) == [i \in 1..n |-> x]

Runs == {List(Repeat(Long(0, <<100>>), n)) : n \in {15, 20}}
            \cup {Str(Repeat(97, 9)), Tuple(Repeat(IntMax4, 4)), Atom(Repeat(97, 11)),
                  Str([i \in 1..60 |-> 97 + (((i * i * i) \div 11) % 5)])}

ZTerms == Leaves \cup Runs \cup FlatOver(Tails, Tails)

InitZ ==
    /\ pc = "encode"
    /\ term \in ZTerms
    /\ Idle

EncodeZ ==
    /\ pc = "encode"
    /\ \E c \in Options :
           /\ compressed' = c
           /\ zlib_term' = IF c.v # 0 THEN compress(encode_term(term), LevelOf(c)) ELSE <<>>
           /\ wire' = encode(term, c)
    /\ pc' = "decode"
    /\ UNCHANGED <<term, buf, res, frame, msgs, sent, emitted>>

DecodeZ ==
    /\ pc = "decode"
    /\ \E k \in 0..Len(wire) :
           /\ buf' = Take(wire, k)
           /\ res' = decode(Take(wire, k))
    /\ pc' = "done"
    /\ UNCHANGED <<term, compressed, zlib_term, wire, frame, msgs, sent, emitted>>

NextZ == EncodeZ \/ DecodeZ

SpecZ == InitZ /\ [][NextZ]_vars

Plain(x) == <<VERSION>> \o encode_term(x)

Envelope(x, z) == <<VERSION, COMPRESSED>> \o int4_pack(Len(encode_term(x))) \o z

\* C2: decode of a strict prefix of any output of encode, compressed or not,
\* fails with IncompleteData: it returns no term and raises nothing else.
C2_TruncationSafety ==
    (pc = "done" /\ Len(buf) < Len(wire)) => res.st = "IncompleteData"

\* C4: with any compression argument (False, True, a level), the output of
\* encode is no longer than the output without compression; and so is what
\* encode makes of the plain encoding and a compressor output of any length.
C4_NeverInflates ==
    pc \in {"decode", "done"} =>
        /\ Len(wire) <= Len(encode(term, PyFalse))
        /\ \A n \in 0..(Len(encode_term(term)) + 12) :
               Len(encode_compressed(encode_term(term), Repeat(0, n)))
                   <= Len(encode(term, PyFalse))

C4_Witness ==
    /\ pc = "decode" /\ compressed = Level(9) /\ wire[2] = COMPRESSED
    /\ Len(wire) < Len(Plain(term))

\* C5: when compression is asked for, encode returns the plain bytes unless
\* the envelope (6 bytes and the compressed payload) is strictly shorter than
\* the plain output (1 byte and the plain encoding), and the envelope if it is.
C5_FallbackUnlessSmaller ==
    (pc = "decode" /\ compressed.v # 0) =>
        wire = IF Len(zlib_term) + 6 < Len(encode_term(term)) + 1
               THEN Envelope(term, zlib_term)
               ELSE Plain(term)

(***************************************************************************)
(* SpecInt: encode_term and decode_term on integers around every change of *)
(* representation.                                                         *)
(***************************************************************************)
MaxIntBytes == 5

\* Magnitudes of w bytes: 256^w - 1, 256^(w-1), 2^(8w-1), 2^(8w-1) - 1, 2^(8w-1) + 1,
\* 256^(w-1) + 1.
Magnitudes(w) ==
    { Repeat(255, w),
      [i \in 1..w |-> IF i = w THEN 1 ELSE 0],
      [i \in 1..w |-> IF i = w THEN 128 ELSE 0],
      [i \in 1..w |-> IF i = w THEN 127 ELSE 255],
      [i \in 1..w |-> IF i = w THEN (IF w = 1 THEN 129 ELSE 128) ELSE IF i = 1 THEN 1 ELSE 0],
      [i \in 1..w |-> IF i = w THEN (IF w = 1 THEN 2 ELSE 1) ELSE IF i = 1 THEN 1 ELSE 0] }

IntInputs ==
    {Int0} \cup {Long(sg, mg) : sg \in {0, 1},
                     mg \in UNION {Magnitudes(w) : w \in (1..MaxIntBytes) \cup {255, 256}}}

InitInt ==
    /\ pc = "encode"
    /\ term \in IntInputs
    /\ Idle

EncodeInt ==
    /\ pc = "encode"
    /\ wire' = encode_term(term)
    /\ pc' = "decode"
    /\ UNCHANGED <<term, compressed, zlib_term, buf, res, frame, msgs, sent, emitted>>

DecodeInt ==
    /\ pc = "decode"
    /\ buf' = wire
    /\ res' = decode_term(wire)
    /\ pc' = "done"
    /\ UNCHANGED <<term, compressed, zlib_term, wire, frame, msgs, sent, emitted>>

NextInt == EncodeInt \/ DecodeInt

SpecInt == InitInt /\ [][NextInt]_vars

\* 0 <= x <= 255
InByte(x) == x.n = 0 /\ Len(x.b) <= 1

\* -2^31 <= x <= 2^31 - 1
InInt4(x) ==
    \/ Len(x.b) <= 3
    \/ Len(x.b) = 4 /\ x.b[4] < 128
    \/ x.n = 1 /\ x.b = <<0, 0, 0, 128>>

\* C6: encode_term writes an integer n in the small-integer form iff
\* 0 <= n <= 255, in the 4-byte signed form iff n is outside that range and
\* -2^31 <= n <= 2^31 - 1, and otherwise as a bignum with its sign byte and its
\* minimal little-endian magnitude, small when the magnitude has at most 255
\* bytes and large otherwise; decode_term gives back exactly (n, empty).
C6_IntegerForms ==
    pc = "done" =>
        /\ res = Ok(term, <<>>)
        /\ wire[1] = SMALL_INTEGER_EXT <=> InByte(term)
        /\ wire[1] = INTEGER_EXT <=> (InInt4(term) /\ ~InByte(term))
        /\ wire[1] \in {SMALL_BIG_EXT, LARGE_BIG_EXT} <=> ~InInt4(term)
        /\ wire[1] = SMALL_INTEGER_EXT => Len(wire) = 2
        /\ wire[1] = INTEGER_EXT => Len(wire) = 5
        /\ wire[1] = SMALL_BIG_EXT =>
               /\ Len(term.b) <= 255
               /\ wire = <<SMALL_BIG_EXT, Len(term.b), term.n>> \o term.b
        /\ wire[1] = LARGE_BIG_EXT =>
               /\ Len(term.b) > 255
               /\ wire = <<LARGE_BIG_EXT>> \o int4_pack(Len(term.b)) \o <<term.n>> \o term.b

C6_Witness ==
    /\ pc = "done" /\ res = Ok(term, <<>>)
    /\ term = Long(1, <<1, 0, 0, 128>>) /\ wire[1] = SMALL_BIG_EXT

(***************************************************************************)
(* SpecFrame: the decoders on buffers put together from a header, encoded  *)
(* elements and whatever bytes follow them.                                *)
(***************************************************************************)
MaxCount == 2

FrameElems == {Long(0, <<1>>), True, List(<<Long(0, <<1>>), Long(0, <<2>>)>>)}

TailTerms == {Long(0, <<1>>), Atom(Name_a), True, Tuple(<<>>), Str(<<>>),
              List(<<Long(0, <<1>>), Long(0, <<2>>)>>), List(<<Atom(Name_a)>>),
              ImproperList(<<Long(0, <<1>>)>>, Long(0, <<2>>))}

\* Bytes that are no tag: 0, the compressed marker, 'z'.
BadTags == {0, COMPRESSED, 122}

Afters ==
    {<<>>, <<NIL_EXT>>, <<NIL_EXT, 0>>, <<SMALL_INTEGER_EXT>>, <<LIST_EXT, 0, 0>>}
        \cup {<<b>> : b \in BadTags}
        \cup {<<b, SMALL_INTEGER_EXT, 1>> : b \in BadTags}
        \cup {encode_term(x) \o j : x \in TailTerms, j \in {<<>>, <<7>>}}
        \cup {<<BINARY_EXT, 64, 0, 0, 0, 97>>, <<BINARY_EXT, 255, 255, 255, 255, 97>>,
              <<LARGE_TUPLE_EXT, 64, 0, 0, 1, SMALL_INTEGER_EXT, 7>>,
              <<LIST_EXT, 128, 0, 0, 0, SMALL_INTEGER_EXT, 1, NIL_EXT>>,
              <<LARGE_BIG_EXT, 255, 255, 255, 255, 0, 1>>}

Frames ==
    {[kind |-> kd, n |-> n, elems |-> e, after |-> a] :
        kd \in {"none", "h", "i", "l"}, n \in 0..MaxCount,
        e \in SeqsUpTo(FrameElems, MaxCount), a \in Afters}

Header(f) ==
    IF f.kind = "h" THEN <<SMALL_TUPLE_EXT, f.n>>
    ELSE IF f.kind = "i" THEN <<LARGE_TUPLE_EXT>> \o int4_pack(f.n)
    ELSE IF f.kind = "l" THEN <<LIST_EXT>> \o int4_pack(f.n)
    ELSE <<>>

FrameBytes(f) ==
    Header(f) \o Flatten([i \in 1..Len(f.elems) |-> encode_term(f.elems[i])]) \o f.after

InitFrame ==
    /\ pc = "frame"
    /\ frame \in {f \in Frames : Len(f.elems) <= f.n}
    /\ term = NoTerm /\ compressed = PyFalse /\ zlib_term = <<>> /\ wire = <<>>
    /\ buf = <<>> /\ res = NoResult /\ msgs = <<>> /\ sent = 0 /\ emitted = <<>>

DecodeTermFrame ==
    /\ pc = "frame"
    /\ buf' = FrameBytes(frame)
    /\ res' = decode_term(FrameBytes(frame))
    /\ pc' = "term"
    /\ UNCHANGED <<term, compressed, zlib_term, wire, frame, msgs, sent, emitted>>

DecodeTopFrame ==
    /\ pc = "frame"
    /\ \E first \in {<<>>, <<VERSION>>, <<0>>, <<SMALL_INTEGER_EXT>>, <<VERSION + 1>>} :
           /\ buf' = first \o FrameBytes(frame)
           /\ res' = decode(first \o FrameBytes(frame))
    /\ pc' = "top"
    /\ UNCHANGED <<term, compressed, zlib_term, wire, frame, msgs, sent, emitted>>

NextFrame == DecodeTermFrame \/ DecodeTopFrame

SpecFrame == InitFrame /\ [][NextFrame]_vars

\* The frame has a byte that is no tag where a term must start: at the top, in
\* place of a declared element, or in place of the tail of a list.
BadAtStart(f) ==
    /\ f.after # <<>> /\ f.after[1] \in BadTags
    /\ \/ f.kind = "none" /\ f.elems = <<>>
       \/ f.kind \in {"h", "i"} /\ Len(f.elems) < f.n
       \/ f.kind = "l"

Unsupported == Raise("ValueError", "unsupported data")

\* C7: decode of a non-empty buffer whose first byte is not the version marker
\* fails with the invalid-version error whatever follows; decode_term fails
\* with the unsupported-data error, not with IncompleteData, wherever a byte
\* that is no tag stands where a term must start, also inside a tuple or list
\* with fewer elements than declared; decode of the empty buffer fails with
\* IncompleteData.
C7_HardErrors ==
    /\ (pc = "top" /\ Len(buf) >= 1 /\ buf[1] # VERSION)
           => res = Raise("ValueError", "unknown protocol version")
    /\ (pc = "top" /\ buf = <<>>) => res = IncompleteData
    /\ (pc = "term" /\ BadAtStart(frame)) => res = Unsupported
    /\ (pc = "top" /\ Len(buf) >= 2 /\ buf[1] = VERSION /\ buf[2] # COMPRESSED
            /\ BadAtStart(frame))
           => res = Unsupported

C7_Witness ==
    /\ pc = "term" /\ frame.kind = "h" /\ frame.n = 2 /\ Len(frame.elems) = 1
    /\ frame.after = <<122>> /\ res = Unsupported

DecodedElems(f) == [i \in 1..Len(f.elems) |-> Decoded(f.elems[i])]

\* The frame is a list header with its declared count of complete terms.
ListFrame(f) == f.kind = "l" /\ Len(f.elems) = f.n

\* C9 as claimed: after the N declared elements (any N >= 0) decode_term returns
\* the proper list when the next byte is the nil tag, fails with IncompleteData
\* when the buffer ends there, and otherwise decodes one more term as the tail
\* and returns the ImproperList of the N elements with that tail.
C9_ListAnyCount ==
    (pc = "term" /\ ListFrame(frame)) =>
        IF frame.after = <<>> THEN res = IncompleteData
        ELSE IF frame.after[1] = NIL_EXT
        THEN res = Ok(List(DecodedElems(frame)), Tail(frame.after))
        ELSE LET tail == decode_term(frame.after)
             IN  tail.st = "ok" =>
                     res = Ok(ImproperList(DecodedElems(frame), tail.term), tail.rest)

\* C9 as amended: the same, except that the ImproperList is returned only when
\* N >= 1 and the tail term is not a list; decode_term fails with ValueError
\* (empty list not allowed) when N = 0 and with TypeError when the tail term is
\* a list, and with the tail's own failure when the tail does not decode.  Every
\* ImproperList returned has at least one element and a tail that is no list.
C9_List ==
    (pc = "term" /\ ListFrame(frame)) =>
        /\ IF frame.after = <<>> THEN res = IncompleteData
           ELSE IF frame.after[1] = NIL_EXT
           THEN res = Ok(List(DecodedElems(frame)), Tail(frame.after))
           ELSE LET tail == decode_term(frame.after)
                IN  IF tail.st # "ok" THEN res = tail
                    ELSE IF frame.n = 0
                    THEN res = Raise("ValueError", "empty list not allowed")
                    ELSE IF IsList(tail.term)
                    THEN res = Raise("TypeError", "non list object expected for tail")
                    ELSE res = Ok(ImproperList(DecodedElems(frame), tail.term), tail.rest)
        /\ (res.st = "ok" /\ res.term.k = "improper")
               => (res.term.e # <<>> /\ ~IsList(res.term.t[1]))

C9_Witness ==
    /\ pc = "term" /\ ListFrame(frame) /\ frame.n = 2
    /\ res.st = "ok" /\ res.term.k = "improper" /\ res.rest = <<7>>

(***************************************************************************)
(* SpecStream: a caller reassembling terms from a stream.  The stream is   *)
(* the concatenation of encode's outputs (compression disabled) for msgs;  *)
(* the caller keeps one buffer, calls decode on all of it, reads another   *)
(* chunk on IncompleteData and goes on with the remainder on success.      *)
(***************************************************************************)
MaxMsgs == 2

\* Terms whose encoding decode takes back, and terms it does not: opaque
\* objects of the languages true and python with data that is no pickle, a
\* tuple that starts with the opaque marker, and opaque objects of the language
\* erlang whose data is no term, half a term, or a term and a byte more.
StreamTerms ==
    {Long(1, <<44, 1>>), Str(<<97, 98>>),
     Unicode(<<97, 0>>), List(<<Long(0, <<1>>), Long(0, <<2>>)>>),
     Tuple(<<Atom(Name_a), List(<<>>)>>), ImproperList(<<Long(0, <<1>>)>>, Atom(Name_a)),
     OpaqueObject(<<SMALL_INTEGER_EXT, 7>>, Atom(ErlangName)),
     OpaqueObject(<<0, 255>>, Atom(Name_ruby)),
     OpaqueObject(<<120>>, Atom(TrueName)), OpaqueObject(<<0, 255>>, python),
     Tuple(<<marker, Long(0, <<1>>), Long(0, <<1>>)>>),
     OpaqueObject(<<>>, Atom(ErlangName)),
     OpaqueObject(<<SMALL_INTEGER_EXT>>, Atom(ErlangName)),
     OpaqueObject(<<SMALL_INTEGER_EXT, 7, 9>>, Atom(ErlangName))}

EncodingOf(i) == encode(msgs[i], PyFalse)

InitStream ==
    /\ pc = "decode"
    /\ msgs \in SeqsUpTo(StreamTerms, MaxMsgs) \ {<<>>}
    /\ wire = Flatten([i \in 1..Len(msgs) |-> encode(msgs[i], PyFalse)])
    /\ term = NoTerm /\ compressed = PyFalse /\ zlib_term = <<>> /\ frame = <<>>
    /\ buf = <<>> /\ res = NoResult /\ sent = 0 /\ emitted = <<>>

\* The caller's call of decode on the whole buffer.
StreamDecode ==
    /\ pc = "decode"
    /\ LET r == decode(buf)
       IN  /\ res' = r
           /\ IF r.st = "ok"
              THEN emitted' = Append(emitted, r.term) /\ buf' = r.rest /\ pc' = "decode"
              ELSE /\ UNCHANGED <<emitted, buf>>
                   /\ pc' = IF r.st # "IncompleteData" THEN "fatal"
                            ELSE IF sent < Len(wire) THEN "read" ELSE "done"
    /\ UNCHANGED <<term, compressed, zlib_term, wire, frame, msgs, sent>>

\* The next chunk, of any length, is appended to the buffer.
StreamRead ==
    /\ pc = "read"
    /\ \E n \in 1..(Len(wire) - sent) :
           /\ buf' = buf \o SubSeq(wire, sent + 1, sent + n)
           /\ sent' = sent + n
    /\ pc' = "decode"
    /\ UNCHANGED <<term, compressed, zlib_term, wire, res, frame, msgs, emitted>>

NextStream == StreamDecode \/ StreamRead

SpecStream == InitStream /\ [][NextStream]_vars

RECURSIVE Consumed(_)
\* The length of the first n encodings of the stream.
Consumed(n) == IF n = 0 THEN 0 ELSE Consumed(n - 1) + Len(EncodingOf(n))

\* What C3 says of the stream: no fatal error; the terms emitted so far are
\* the terms of decode(E1), decode(E2), ... in order, whatever bytes followed
\* each encoding in the buffer it was decoded from; the buffer is always what
\* was delivered beyond the encodings of the emitted terms, so that the
\* remainder of each successful decode is a strict suffix of the decoded
\* buffer; and when all chunks are delivered and decode asks for more, n terms
\* are emitted and the buffer is empty.
Reassembled ==
    /\ pc # "fatal"
    /\ Len(emitted) <= Len(msgs)
    /\ \A i \in 1..Len(emitted) :
           /\ Len(EncodingOf(i)) >= 1
           /\ decode(EncodingOf(i)) = Ok(emitted[i], <<>>)
    /\ buf = Slice(wire, Consumed(Len(emitted)) + 1, sent)
    /\ res.st = "ok" => (pc = "decode" /\ res.rest = buf /\ res.term = emitted[Len(emitted)])
    /\ pc = "done" => (sent = Len(wire) /\ Len(emitted) = Len(msgs) /\ buf = <<>>)

\* decode takes the encoding of message i, alone in a buffer, as one term
\* and leaves nothing.
Framed(i) == LET r == decode(EncodingOf(i)) IN r.st = "ok" /\ r.rest = <<>>

====
